---------------------------- MODULE Spec2Model ----------------------------
(***************************************************************************)
(* A model of cf-daily-bot: a Discord bot that ties Codeforces handles to  *)
(* Discord users, sets a daily problem per guild, awards points on /check  *)
(* and publishes a leaderboard.                                            *)
(*                                                                         *)
(* Strings the program parses or builds (URLs, button custom IDs, problem  *)
(* IDs) are sequences of one-character strings, so that split, parseInt,   *)
(* toString, template literals and the URL regex are computed as the code  *)
(* computes them.  An absent optional string (undefined / null) is the     *)
(* empty sequence Null: every test the code applies to such a field (!x,   *)
(* x === <non-empty string>) gives the same answer for both.               *)
(*                                                                         *)
(* Each interaction handler is a process: it suspends at every await and   *)
(* other handlers run in between.  One model step is the completion of one *)
(* awaited I/O call followed by the synchronous code up to the next await. *)
(***************************************************************************)
EXTENDS Naturals, Integers, Sequences, FiniteSets

VARIABLES
    servers,    \* the Server collection: sequence of documents, in insertion order
    users,      \* the User collection: sequence of documents, in insertion order
    subs,       \* the judge: handle -> submissions, newest first
    controls,   \* login buttons issued so far: [user, guild, customId]
    inter,      \* slot -> the interaction being handled there (pc, inputs, locals)
    task,       \* slot -> the detached updateLeaderboard call its check started
    posts,      \* messages sent to channels: sequence of [channel, kind, id]
    started,    \* number of interactions delivered so far
    rankIn,     \* leaderboard rendering on its own: the member list given
    rankOut,    \* ... and the lines rendered from it
    urlIn,      \* the URL format check on its own: the URL given
    urlOut,     \* ... and what the format check answered
    uptimeIn,   \* uptime formatting on its own: the number of seconds given
    uptimeOut   \* ... and the text formatted from it

vars == <<servers, users, subs, controls, inter, task, posts, started,
          rankIn, rankOut, urlIn, urlOut, uptimeIn, uptimeOut>>

(***************************************************************************)
(* Bounds of the model.                                                    *)
(***************************************************************************)
MaxMembers == 3        \* longest member list given to the renderer
MaxPoints == 2         \* largest points value given to the renderer
MaxChecks == 2         \* check interactions delivered in one behaviour
MaxSubs == 1           \* submissions a handle makes in one behaviour
MaxAdmin == 3          \* configuration interactions delivered in one behaviour
MaxLogins == 3         \* login interactions and button presses in one behaviour
MaxReplies == 2        \* interactions delivered one after the other in one behaviour
MaxUptime == 90061     \* largest number of seconds given to the uptime formatter

Null == <<>>
NoDoc == [none |-> TRUE]

(***************************************************************************)
(* Strings.                                                                *)
(***************************************************************************)
DigitChars == <<"0", "1", "2", "3", "4", "5", "6", "7", "8", "9">>
Digits == {DigitChars[i] : i \in 1..10}
UpperChars == {"A", "B", "C", "D", "E", "F", "G", "H", "I", "J", "K", "L", "M",
               "N", "O", "P", "Q", "R", "S", "T", "U", "V", "W", "X", "Y", "Z"}

Slice(s, from, to) == [k \in 1..(to - from + 1) |-> s[from + k - 1]]

HasPrefixAt(s, p, pre) ==
    /\ p + Len(pre) - 1 <= Len(s)
    /\ \A k \in 1..Len(pre) : s[p + k - 1] = pre[k]

\* Number of consecutive characters of class cls in s from position p on.
RECURSIVE RunLength(_, _, _)
RunLength(s, p, cls) ==
    IF p <= Len(s) /\ s[p] \in cls THEN 1 + RunLength(s, p + 1, cls) ELSE 0

\* Number.prototype.toString() / a number in a template literal, n >= 0.
RECURSIVE NumberToString(_)
NumberToString(n) ==
    IF n < 10 THEN <<DigitChars[n + 1]>>
    ELSE NumberToString(n \div 10) \o <<DigitChars[(n % 10) + 1]>>

DigitValue(c) == CHOOSE d \in 0..9 : DigitChars[d + 1] = c

NaN == -1

RECURSIVE DigitsValue(_)
DigitsValue(s) ==
    IF s = <<>> THEN 0
    ELSE DigitsValue(Slice(s, 1, Len(s) - 1)) * 10 + DigitValue(s[Len(s)])

\* parseInt(s, 10) on a string without sign or leading blanks: the value
\* of the leading digits, NaN when there are none.
ParseInt(s) ==
    LET n == RunLength(s, 1, Digits)
    IN  IF n = 0 THEN NaN ELSE DigitsValue(Slice(s, 1, n))

\* String.prototype.split(sep), sep one character.
RECURSIVE Split(_, _)
Split(s, sep) ==
    IF \E k \in 1..Len(s) : s[k] = sep
    THEN LET k == CHOOSE k \in 1..Len(s) :
                      s[k] = sep /\ \A j \in 1..(k - 1) : s[j] # sep
         IN  <<Slice(s, 1, k - 1)>> \o Split(Slice(s, k + 1, Len(s)), sep)
    ELSE <<s>>

\* parts[i] of a JavaScript array, i counted from 0: undefined past the end.
At(parts, i) == IF i + 1 <= Len(parts) THEN parts[i + 1] ELSE Null

StrDone == <<"d", "o", "n", "e">>
StrContestUrl == <<"h", "t", "t", "p", "s", ":", "/", "/", "c", "o", "d", "e", "f",
                   "o", "r", "c", "e", "s", ".", "c", "o", "m", "/", "c", "o", "n",
                   "t", "e", "s", "t", "/">>
StrProblemsetUrl == <<"h", "t", "t", "p", "s", ":", "/", "/", "c", "o", "d", "e",
                      "f", "o", "r", "c", "e", "s", ".", "c", "o", "m", "/", "p",
                      "r", "o", "b", "l", "e", "m", "s", "e", "t", "/", "p", "r",
                      "o", "b", "l", "e", "m", "/">>
StrSlashProblem == <<"/", "p", "r", "o", "b", "l", "e", "m", "/">>
StrExampleUrl == <<"h", "t", "t", "p", "s", ":", "/", "/", "e", "x", "a", "m", "p",
                   "l", "e", ".", "c", "o", "m", "/", "f", "o", "o">>
StrHost == <<"h", "t", "t", "p", "s", ":", "/", "/", "c", "o", "d", "e", "f", "o",
             "r", "c", "e", "s", ".", "c", "o", "m">>

\* `${contestId}/${index}` for two strings.
ProblemIdOf(contestStr, index) == contestStr \o <<"/">> \o index

\* The URL getRandomProblemUrl builds for a problem, the form the command
\* table shows for setdailyproblem's problem_url option.
ContestProblemUrl(contestStr, index) ==
    StrContestUrl \o contestStr \o StrSlashProblem \o index

(***************************************************************************)
(* setdailyproblem's format check:                                         *)
(*   /\/(?:contest|problemset)\/problem\/(\d+)\/([A-Z0-9]+)/               *)
(* String.prototype.match with a non-global regex gives the leftmost       *)
(* match; \d+ and [A-Z0-9]+ are greedy.  (\d+) is followed by a literal    *)
(* "/", so it takes the whole run of digits or the match fails there.      *)
(***************************************************************************)
RegexHeads ==
    { <<"/", "c", "o", "n", "t", "e", "s", "t", "/", "p", "r", "o", "b", "l", "e",
        "m", "/">>,
      <<"/", "p", "r", "o", "b", "l", "e", "m", "s", "e", "t", "/", "p", "r", "o",
        "b", "l", "e", "m", "/">> }

NoMatch == [matched |-> FALSE, contestId |-> Null, index |-> Null]

RegexMatchAt(s, p) ==
    IF \E head \in RegexHeads : HasPrefixAt(s, p, head)
    THEN LET head == CHOOSE head \in RegexHeads : HasPrefixAt(s, p, head)
             q == p + Len(head)
             nd == RunLength(s, q, Digits)
             r == q + nd + 1
             ni == RunLength(s, r, UpperChars \cup Digits)
         IN  IF nd >= 1 /\ q + nd <= Len(s) /\ s[q + nd] = "/" /\ ni >= 1
             THEN [matched |-> TRUE,
                   contestId |-> Slice(s, q, q + nd - 1),
                   index |-> Slice(s, r, r + ni - 1)]
             ELSE NoMatch
    ELSE NoMatch

MatchProblemUrl(s) ==
    IF \E p \in 1..Len(s) : RegexMatchAt(s, p).matched
    THEN LET p == CHOOSE p \in 1..Len(s) :
                      /\ RegexMatchAt(s, p).matched
                      /\ \A j \in 1..(p - 1) : ~RegexMatchAt(s, j).matched
         IN  RegexMatchAt(s, p)
    ELSE NoMatch

(***************************************************************************)
(* Leaderboard rendering, the same code in updateLeaderboard and in the    *)
(* leaderboard command.  A member is [user, points, lastSubmitted]; user   *)
(* is the populated User document, or NoDoc when the reference did not     *)
(* resolve.  A rendered line `${currentRank}. <@${id}> - ${points}         *)
(* point(s)` is the record [rank, id, points].                             *)
(***************************************************************************)
\* Array.prototype.sort with (a, b) => (b.points || 0) - (a.points || 0):
\* descending by points and stable, members of equal points keep their order.
RECURSIVE InsertDesc(_, _)
InsertDesc(sorted, m) ==
    IF sorted = <<>> THEN <<m>>
    ELSE IF Head(sorted).points >= m.points
         THEN <<Head(sorted)>> \o InsertDesc(Tail(sorted), m)
         ELSE <<m>> \o sorted

RECURSIVE SortDesc(_)
SortDesc(members) ==
    IF members = <<>> THEN <<>>
    ELSE InsertDesc(SortDesc(Slice(members, 1, Len(members) - 1)),
                    members[Len(members)])

NewRankDense(i, currentRank) == currentRank + 1

\* The rank the loop gives the member at index i (from 1; the code's i + 1)
\* when its points differ from lastPoints.
NewRank(i, currentRank) == i

\* The loop body for sorted[i], from the loop state [rank, last, lines].
RankStep(sorted, i, st) ==
    LET member == sorted[i]
    IN  IF member.user # NoDoc
        THEN LET rank == IF member.points # st.last
                         THEN NewRank(i, st.rank) ELSE st.rank
             IN  [rank |-> rank, last |-> member.points,
                  lines |-> Append(st.lines, [rank |-> rank,
                                              id |-> member.user.id,
                                              points |-> member.points])]
        ELSE st

RECURSIVE RankLoop(_, _)
RankLoop(sorted, i) ==
    IF i = 0 THEN [rank |-> 0, last |-> -1, lines |-> <<>>]
    ELSE RankStep(sorted, i, RankLoop(sorted, i - 1))

RenderLeaderboard(members) ==
    LET sorted == SortDesc(members)
    IN  RankLoop(sorted, Len(sorted)).lines

(***************************************************************************)
(* The worlds the model runs in.                                           *)
(***************************************************************************)
Guilds == {"g1", "g2"}
PlatformUsers == {"u1", "u2"}
Slots == {1, 2}
HandleA == <<"a">>
HandleB == <<"b">>
Handles == {HandleA, HandleB}

\* The judge's problem set (problemset.problems): contestId is a number.
ProblemA == [contestId |-> 15, index |-> <<"A">>]
ProblemB == [contestId |-> 2, index |-> <<"B", "1">>]
Problems == {ProblemA, ProblemB}

NotRendered == [done |-> FALSE, lines |-> <<>>]
NotMatched == [done |-> FALSE, match |-> NoMatch]
NotFormatted == [done |-> FALSE, text |-> <<>>]

(***************************************************************************)
(* The document store as the handlers use it through Mongoose.             *)
(*                                                                         *)
(* A Server document is [guildId, daily, channelId, announcementChannelId, *)
(* messageId, members, v]; its _id is its index in servers.  A member is   *)
(* [user, points, lastSubmitted] with user the _id of a User document.  v  *)
(* is the version key __v, which the schema leaves enabled.  A User        *)
(* document is [id, cfUsername, guildId]; its _id is its index in users.   *)
(*                                                                         *)
(* findOne returns the first matching document in natural order.  save()   *)
(* sends the paths modified since the document was read: a push onto       *)
(* members goes out as $push (and increments __v); an assignment to a      *)
(* field of members[i] goes out as $set of that position, under the        *)
(* condition that __v still is the version read; an assignment to a top-   *)
(* level field goes out as $set of that field.  A save whose version       *)
(* condition matches no document throws (VersionError).                    *)
(***************************************************************************)
NewServer(guildId) ==
    [guildId |-> guildId, daily |-> Null, channelId |-> Null,
     announcementChannelId |-> Null, messageId |-> Null, members |-> <<>>, v |-> 0]

\* populate("members.user"): each reference replaced by the document, or by
\* NoDoc (null) when no User document has that _id.
PopulateUser(ref) ==
    IF ref \in DOMAIN users
    THEN [oid |-> ref, id |-> users[ref].id, cfUsername |-> users[ref].cfUsername,
          guildId |-> users[ref].guildId]
    ELSE NoDoc

Populate(members) ==
    [k \in DOMAIN members |-> [members[k] EXCEPT !.user = PopulateUser(members[k].user)]]

\* toObject({depopulate: true}): each populated user back to its _id.
Depopulate(members) ==
    [k \in DOMAIN members |->
        [members[k] EXCEPT !.user = IF members[k].user = NoDoc THEN 0
                                    ELSE members[k].user.oid]]

\* The document as a handler holds it: its fields, its _id and members as read.
Loaded(oid, populated) ==
    [oid |-> oid, guildId |-> servers[oid].guildId, daily |-> servers[oid].daily,
     channelId |-> servers[oid].channelId,
     announcementChannelId |-> servers[oid].announcementChannelId,
     messageId |-> servers[oid].messageId,
     members |-> IF populated THEN Populate(servers[oid].members)
                 ELSE servers[oid].members,
     v |-> servers[oid].v]

\* Server.findOne({ guildId }) and, with needDaily,
\* Server.findOne({ daily: { $exists: true }, guildId }).
MatchesServer(k, guildId, needDaily) ==
    servers[k].guildId = guildId /\ (needDaily => servers[k].daily # Null)

FindServer(guildId, needDaily, populated) ==
    IF \E k \in DOMAIN servers : MatchesServer(k, guildId, needDaily)
    THEN LET k == CHOOSE k \in DOMAIN servers :
                      /\ MatchesServer(k, guildId, needDaily)
                      /\ \A j \in 1..(k - 1) : ~MatchesServer(j, guildId, needDaily)
         IN  Loaded(k, populated)
    ELSE NoDoc

\* User.findOne({ id }): the first User document with that Discord user ID,
\* whichever guild it was created in.
MatchesUserAny(k, id) == TRUE

MatchesUser(k, id) == users[k].id = id

FindUser(id) ==
    IF \E k \in DOMAIN users : MatchesUser(k, id)
    THEN PopulateUser(CHOOSE k \in DOMAIN users :
                          MatchesUser(k, id) /\ \A j \in 1..(k - 1) : ~MatchesUser(j, id))
    ELSE NoDoc

NoDelta == [kind |-> "none"]

\* save() after server.members.push(entry).
SavePush(oid, entry) ==
    [ok |-> TRUE,
     servers |-> [servers EXCEPT ![oid].members = Append(@, entry), ![oid].v = @ + 1]]

WrittenPointsAtomic(stored, computed) == stored + 1

\* The points a save() writes to a stored member for an in-memory
\* member.points += 1: the value computed from the points read.
WrittenPoints(stored, computed) == computed

\* save() after member.points += 1; member.lastSubmitted = dailyProblemId,
\* member being members[index] of a document read at version v.
SaveSetMember(oid, v, index, points, lastSubmitted) ==
    IF servers[oid].v = v /\ index \in DOMAIN servers[oid].members
    THEN [ok |-> TRUE,
          servers |-> [servers EXCEPT
              ![oid].members[index].points =
                  WrittenPoints(servers[oid].members[index].points, points),
              ![oid].members[index].lastSubmitted = lastSubmitted]]
    ELSE [ok |-> FALSE, servers |-> servers]

\* save() in updateLeaderboard: members was sorted in place, which marks the
\* whole array modified, and messageId was assigned.  A $set of an array
\* carries the version condition and increments __v.
SaveSortedAndMessage(oid, v, members, messageId) ==
    IF servers[oid].v = v
    THEN [ok |-> TRUE,
          servers |-> [servers EXCEPT ![oid].members = Depopulate(members),
                                      ![oid].messageId = messageId,
                                      ![oid].v = @ + 1]]
    ELSE [ok |-> FALSE, servers |-> servers]

ApplyDelta(oid, d) ==
    IF d.kind = "push" THEN SavePush(oid, d.entry)
    ELSE IF d.kind = "set"
         THEN SaveSetMember(oid, d.v, d.index, d.points, d.lastSubmitted)
         ELSE [ok |-> TRUE, servers |-> servers]

(***************************************************************************)
(* The judge (Codeforces API).  A submission is [problem, verdict] with    *)
(* problem = [contestId, index]; user.status lists them newest first.      *)
(***************************************************************************)
\* What the user.status request answers: failed (an HTTP error, or status
\* FAILED for a handle the judge does not know), or the handle's list.
JudgeKnows(handle) == handle \in DOMAIN subs

\* hasSolvedProblem, given the submissions fetched.
HasSolved(submissions, problemId) ==
    LET parts == Split(problemId, "/")
        contestId == ParseInt(At(parts, 0))
        index == At(parts, 1)
    IN  \E k \in DOMAIN submissions :
            /\ submissions[k].problem.contestId = contestId
            /\ submissions[k].problem.index = index
            /\ submissions[k].verdict = "OK"

Submit(handle, problem, verdict, limit) ==
    /\ Len(subs[handle]) < limit
    /\ subs' = [subs EXCEPT ![handle] = <<[problem |-> problem, verdict |-> verdict]>> \o @]
    /\ UNCHANGED <<servers, users, controls, inter, task, posts, started,
                   rankIn, rankOut, urlIn, urlOut, uptimeIn, uptimeOut>>

(***************************************************************************)
(* Interactions.  inter[s] holds the handler's inputs (cmd, user, guild,   *)
(* perm, arg, chan), its position pc, what it replied, its local variables *)
(* (udoc, doc, solved, embed, delta) and did, the I/O calls it has made.   *)
(* replies are the responses the platform accepted, failed the ones it     *)
(* did not; expired says the platform no longer accepts any response to    *)
(* this interaction (error 10062).                                         *)
(***************************************************************************)
FirstPc(cmd) == cmd

Fresh(cmd, user, guild, perm, arg, chan) ==
    [user |-> user, match |-> NoMatch, text |-> <<>>, cmd |-> cmd, guild |-> guild,
     perm |-> perm, arg |-> arg, chan |-> chan, pc |-> FirstPc(cmd), replied |-> FALSE,
     replies |-> <<>>, udoc |-> NoDoc, doc |-> NoDoc, solved |-> FALSE, embed |-> "",
     delta |-> NoDelta, sub |-> NoDoc, warnings |-> {}, control |-> 0, did |-> {},
     expired |-> FALSE, failed |-> <<>>]

NoChannel == [id |-> Null, sendable |-> FALSE]
Idle == [Fresh("", "", "", FALSE, Null, NoChannel) EXCEPT !.pc = "idle"]
NoTask == [lines |-> <<>>, guild |-> "", pc |-> "none", doc |-> NoDoc]

\* Everything at rest: empty collections, no interaction in flight.
AtRest ==
    /\ servers = <<>>
    /\ users = <<>>
    /\ subs = [h \in Handles |-> <<>>]
    /\ controls = {}
    /\ inter = [s \in Slots |-> Idle]
    /\ task = [s \in Slots |-> NoTask]
    /\ posts = <<>>
    /\ started = 0

PureIdle ==
    /\ rankIn = <<>> /\ rankOut = NotRendered
    /\ urlIn = Null /\ urlOut = NotMatched
    /\ uptimeIn = 0 /\ uptimeOut = NotFormatted

SlotFree(s) == inter[s].pc \in {"idle", "done"} /\ task[s].pc \in {"none", "done"}

\* The gateway delivers an interaction; it is handled in the lowest free slot.
Arrive(s, limit, rec) ==
    /\ started < limit
    /\ SlotFree(s)
    /\ \A r \in Slots : r < s => ~SlotFree(r)
    /\ started' = started + 1
    /\ inter' = [inter EXCEPT ![s] = rec]
    /\ task' = [task EXCEPT ![s] = NoTask]
    /\ UNCHANGED <<servers, users, subs, controls, posts, rankIn, rankOut, urlIn, urlOut, uptimeIn, uptimeOut>>

Deliver(s, limit, cmd, user, guild, perm, arg, chan) ==
    Arrive(s, limit, Fresh(cmd, user, guild, perm, arg, chan))

\* One response call (reply, followUp, editReply): sent tells whether the
\* request went through.  reply throws once the interaction has a reply,
\* editReply before it has one.
Respond(rec, how, msg, sent) ==
    IF /\ sent
       /\ ~rec.expired
       /\ how = "reply" => ~rec.replied
       /\ how = "editReply" => rec.replied
    THEN [ok |-> TRUE,
          rec |-> [rec EXCEPT !.replied = TRUE,
                              !.replies = Append(@, [how |-> how, msg |-> msg])]]
    ELSE [ok |-> FALSE,
          rec |-> [rec EXCEPT !.failed = Append(@, [how |-> how, msg |-> msg])]]

\* safeReply with the test of interaction.replied left out.
SafeReplyBlind(rec, msg) ==
    [rec EXCEPT !.replied = TRUE,
                !.replies = Append(@, [how |-> "reply", msg |-> msg])]

\* safeReply: reply when the interaction has no reply yet, followUp otherwise;
\* an error of the call is logged and swallowed.
SafeReply(rec, msg) ==
    Respond(rec, IF rec.replied THEN "followUp" ELSE "reply", msg, TRUE).rec

\* The handler returns: the documents it held are gone (delta, the write it
\* sent, stays on record).
End(rec) == [rec EXCEPT !.pc = "done", !.udoc = NoDoc, !.doc = NoDoc]

\* return await safeReply(...)
ReplyAndEnd(rec, msg) == End(SafeReply(rec, msg))

Did(rec, what) == [rec EXCEPT !.did = @ \cup {what}]

(***************************************************************************)
(* check.                                                                  *)
(***************************************************************************)
\* const user = await User.findOne({ id: cmdInteraction.user.id })
CheckFindUser(s) ==
    /\ inter[s].pc = "check"
    /\ LET rec == Did(inter[s], "User.findOne")
           user == FindUser(rec.user)
       IN  inter' = [inter EXCEPT ![s] =
               IF user = NoDoc THEN ReplyAndEnd(rec, "NotLoggedIn")
               ELSE [rec EXCEPT !.udoc = user, !.pc = "check:server"]]
    /\ UNCHANGED <<servers, users, subs, controls, task, posts, started,
                   rankIn, rankOut, urlIn, urlOut, uptimeIn, uptimeOut>>

\* const server = await Server.findOne({ daily: {$exists: true}, guildId }).populate(..)
CheckFindServer(s) ==
    /\ inter[s].pc = "check:server"
    /\ LET rec == Did(inter[s], "Server.findOne")
           server == FindServer(rec.guild, TRUE, TRUE)
       IN  inter' = [inter EXCEPT ![s] =
               IF server = NoDoc THEN ReplyAndEnd(rec, "NoDailyProblem")
               ELSE [rec EXCEPT !.doc = server, !.pc = "check:judge"]]
    /\ UNCHANGED <<servers, users, subs, controls, task, posts, started,
                   rankIn, rankOut, urlIn, urlOut, uptimeIn, uptimeOut>>

\* server.members.find(m => m.user && m.user.id === user.id): its index, 0 if none.
FindMember(members, user) ==
    LET hit(k) == members[k].user # NoDoc /\ members[k].user.id = user.id
    IN  IF \E k \in DOMAIN members : hit(k)
        THEN CHOOSE k \in DOMAIN members : hit(k) /\ \A j \in 1..(k - 1) : ~hit(j)
        ELSE 0

AlreadySubmittedDropped(members, k, dailyProblemId) == FALSE

\* member && member.lastSubmitted === dailyProblemId
AlreadySubmitted(members, k, dailyProblemId) ==
    k # 0 /\ members[k].lastSubmitted = dailyProblemId

\* The update with the increment made only for a solved problem.
CheckDeltaSolvedOnly(doc, k, user, solved) ==
    IF k = 0
    THEN [kind |-> "push",
          entry |-> [user |-> user.oid,
                     points |-> IF solved THEN 1 ELSE 0,
                     lastSubmitted |-> IF solved THEN doc.daily ELSE Null]]
    ELSE [kind |-> "set", v |-> doc.v, index |-> k,
          points |-> doc.members[k].points + (IF solved THEN 1 ELSE 0),
          lastSubmitted |-> doc.daily]

\* The in-memory update of lines 444-453, as the write save() will send.
CheckDelta(doc, k, user, solved) ==
    IF k = 0
    THEN [kind |-> "push",
          entry |-> [user |-> user.oid,
                     points |-> IF solved THEN 1 ELSE 0,
                     lastSubmitted |-> IF solved THEN doc.daily ELSE Null]]
    ELSE [kind |-> "set", v |-> doc.v, index |-> k,
          points |-> doc.members[k].points + 1, lastSubmitted |-> doc.daily]

\* updateLeaderboard(guildId).catch(...): the call is started and not awaited.
StartRefresh(s) ==
    task' = [task EXCEPT ![s] = [NoTask EXCEPT !.pc = "lb:find", !.guild = inter[s].guild]]

\* The refresh is started when the handler gets to line 460, on its way to
\* the await of the reply.
RefreshStarts(s) ==
    IF inter'[s].pc = "check:reply" THEN StartRefresh(s) ELSE UNCHANGED task

\* const solved = await hasSolvedProblem(user.cfUsername, dailyProblemId), then
\* the member lookup and the in-memory update up to await server.save() or,
\* when the member has submitted already, up to the await of the reply.
CheckJudge(s, fetched) ==
    /\ inter[s].pc = "check:judge"
    /\ LET rec == Did(inter[s], "judge.status")
           handle == rec.udoc.cfUsername
           k == FindMember(rec.doc.members, rec.udoc)
       IN  inter' = [inter EXCEPT ![s] =
               IF ~(fetched /\ JudgeKnows(handle))
               THEN ReplyAndEnd(Did(rec, "judge.failed"), "CheckFailed")
               ELSE LET solved == HasSolved(subs[handle], rec.doc.daily)
                    IN  IF AlreadySubmitted(rec.doc.members, k, rec.doc.daily)
                        THEN [rec EXCEPT !.solved = solved, !.embed = "AlreadySubmitted",
                                         !.pc = "check:reply"]
                        ELSE [rec EXCEPT !.solved = solved,
                                         !.delta = CheckDelta(rec.doc, k, rec.udoc, solved),
                                         !.embed = IF solved THEN "Solved" ELSE "NotSolved",
                                         !.pc = "check:save"]]
    /\ RefreshStarts(s)
    /\ UNCHANGED <<servers, users, subs, controls, posts, started,
                   rankIn, rankOut, urlIn, urlOut, uptimeIn, uptimeOut>>

\* await server.save(); a VersionError lands in the command's catch block,
\* which replies and ends the handler before updateLeaderboard is called.
\* Otherwise updateLeaderboard is started and the reply is awaited.
CheckSave(s) ==
    /\ inter[s].pc = "check:save"
    /\ LET rec == Did(inter[s], "Server.save")
           res == ApplyDelta(rec.doc.oid, rec.delta)
       IN  /\ servers' = res.servers
           /\ inter' = [inter EXCEPT ![s] =
                  IF res.ok THEN [rec EXCEPT !.pc = "check:reply"]
                  ELSE ReplyAndEnd(rec, "CheckError")]
    /\ RefreshStarts(s)
    /\ UNCHANGED <<users, subs, controls, posts, started,
                   rankIn, rankOut, urlIn, urlOut, uptimeIn, uptimeOut>>

\* The reply waits for the refresh (updateLeaderboard awaited).
ReplyReadyAfterRefresh(s) == task[s].pc = "done"

\* The reply waits for nothing but its own request.
ReplyReady(s) == TRUE

\* return await safeReply(cmdInteraction, replyEmbed)
CheckReply(s) ==
    /\ inter[s].pc = "check:reply"
    /\ ReplyReady(s)
    /\ inter' = [inter EXCEPT ![s] = ReplyAndEnd(inter[s], inter[s].embed)]
    /\ UNCHANGED <<servers, users, subs, controls, task, posts, started,
                   rankIn, rankOut, urlIn, urlOut, uptimeIn, uptimeOut>>

(***************************************************************************)
(* updateLeaderboard, as the detached call a check starts.  task[s] holds  *)
(* its position, the document it read and the text it rendered.            *)
(***************************************************************************)
TaskEnd(t) == [t EXCEPT !.pc = "done", !.doc = NoDoc, !.lines = <<>>]

\* Server.findOne({ guildId }).populate("members.user"), then the checks and
\* the in-place sort up to await fetchTextChannel(server.channelId).
LbFind(s) ==
    /\ task[s].pc = "lb:find"
    /\ LET server == FindServer(task[s].guild, FALSE, TRUE)
       IN  task' = [task EXCEPT ![s] =
               IF server = NoDoc THEN TaskEnd(task[s])
               ELSE IF server.members = <<>> \/ server.channelId = Null
                    THEN TaskEnd(task[s])
                    ELSE [task[s] EXCEPT
                             !.doc = [server EXCEPT !.members = SortDesc(server.members)],
                             !.pc = "lb:channel"]]
    /\ UNCHANGED <<servers, users, subs, controls, inter, posts, started,
                   rankIn, rankOut, urlIn, urlOut, uptimeIn, uptimeOut>>

\* fetchTextChannel answers the channel or null; then the text is rendered and
\* either channel.send or channel.messages.fetch is awaited.
LbChannel(s, found) ==
    /\ task[s].pc = "lb:channel"
    /\ LET doc == task[s].doc
       IN  task' = [task EXCEPT ![s] =
               IF ~found THEN TaskEnd(task[s])
               ELSE [task[s] EXCEPT
                        !.lines = RankLoop(doc.members, Len(doc.members)).lines,
                        !.pc = IF doc.messageId = Null THEN "lb:send" ELSE "lb:fetch"]]
    /\ UNCHANGED <<servers, users, subs, controls, inter, posts, started,
                   rankIn, rankOut, urlIn, urlOut, uptimeIn, uptimeOut>>

\* The message of channel with the given ID: its index in posts, 0 if none.
MessageIn(channel, messageId) ==
    IF \E k \in DOMAIN posts : posts[k].channel = channel /\ NumberToString(k) = messageId
    THEN CHOOSE k \in DOMAIN posts : posts[k].channel = channel /\ NumberToString(k) = messageId
    ELSE 0

\* channel.messages.fetch(server.messageId).catch(() => null)
LbFetch(s) ==
    /\ task[s].pc = "lb:fetch"
    /\ task' = [task EXCEPT ![s].pc =
           IF MessageIn(task[s].doc.channelId, task[s].doc.messageId) # 0
           THEN "lb:edit" ELSE "lb:send"]
    /\ UNCHANGED <<servers, users, subs, controls, inter, posts, started,
                   rankIn, rankOut, urlIn, urlOut, uptimeIn, uptimeOut>>

\* message.edit({ embeds: [embed] }); an error is caught and logged by
\* updateLeaderboard.
LbEdit(s, sent) ==
    /\ task[s].pc = "lb:edit"
    /\ LET k == MessageIn(task[s].doc.channelId, task[s].doc.messageId)
       IN  posts' = IF k = 0 \/ ~sent THEN posts
                    ELSE [posts EXCEPT ![k].text = task[s].lines, ![k].edits = @ + 1]
    /\ task' = [task EXCEPT ![s] = TaskEnd(task[s])]
    /\ UNCHANGED <<servers, users, subs, controls, inter, started,
                   rankIn, rankOut, urlIn, urlOut, uptimeIn, uptimeOut>>

\* const message = await channel.send(...); server.messageId = message.id;
\* an error is caught and logged by updateLeaderboard.
LbSend(s, sent) ==
    /\ task[s].pc = "lb:send"
    /\ posts' = IF ~sent THEN posts
                ELSE Append(posts, [channel |-> task[s].doc.channelId,
                                    kind |-> "leaderboard",
                                    text |-> task[s].lines, edits |-> 0])
    /\ task' = [task EXCEPT ![s] =
           IF ~sent THEN TaskEnd(task[s])
           ELSE [task[s] EXCEPT !.doc.messageId = NumberToString(Len(posts) + 1),
                                !.pc = "lb:save"]]
    /\ UNCHANGED <<servers, users, subs, controls, inter, started,
                   rankIn, rankOut, urlIn, urlOut, uptimeIn, uptimeOut>>

\* await server.save(); an error is caught and logged by updateLeaderboard.
LbSave(s) ==
    /\ task[s].pc = "lb:save"
    /\ servers' = SaveSortedAndMessage(task[s].doc.oid, task[s].doc.v,
                                       task[s].doc.members, task[s].doc.messageId).servers
    /\ task' = [task EXCEPT ![s] = TaskEnd(task[s])]
    /\ UNCHANGED <<users, subs, controls, inter, posts, started,
                   rankIn, rankOut, urlIn, urlOut, uptimeIn, uptimeOut>>

Refresh(s) ==
    \/ LbFind(s)
    \/ \E found \in BOOLEAN : LbChannel(s, found)
    \/ LbFetch(s)
    \/ \E sent \in BOOLEAN : LbEdit(s, sent)
    \/ \E sent \in BOOLEAN : LbSend(s, sent)
    \/ LbSave(s)

(***************************************************************************)
(* check in a configured guild: both users have logged in, the guild has   *)
(* a daily problem, and interactions overlap.                              *)
(***************************************************************************)
ChannelC1 == <<"c", "1">>
ChannelC2 == <<"c", "2">>
DailyA == ProblemIdOf(NumberToString(ProblemA.contestId), ProblemA.index)
DailyB == ProblemIdOf(NumberToString(ProblemB.contestId), ProblemB.index)

LoggedInUsers ==
    << [id |-> "u1", cfUsername |-> HandleA, guildId |-> "g1"],
       [id |-> "u2", cfUsername |-> HandleB, guildId |-> "g1"] >>

\* Member lists earlier checks leave behind: nobody has checked yet; u1 has
\* checked without having solved the problem.
CheckedBefore ==
    { <<>>, <<[user |-> 1, points |-> 0, lastSubmitted |-> Null]>> }

\* What both handles have submitted before: nothing that solves ProblemA.
EarlierSubs ==
    << [problem |-> ProblemB, verdict |-> "OK"],
       [problem |-> ProblemA, verdict |-> "WRONG_ANSWER"] >>

InitCheck ==
    /\ \E channelId \in {Null, ChannelC1}, members \in CheckedBefore :
           servers = << [NewServer("g1") EXCEPT !.daily = DailyA,
                                                !.channelId = channelId,
                                                !.members = members,
                                                !.v = Len(members)] >>
    /\ users = LoggedInUsers
    /\ subs = [h \in Handles |-> EarlierSubs]
    /\ controls = {}
    /\ inter = [s \in Slots |-> Idle]
    /\ task = [s \in Slots |-> NoTask]
    /\ posts = <<>>
    /\ started = 0
    /\ PureIdle

CheckHandler(s) ==
    \/ CheckFindUser(s)
    \/ CheckFindServer(s)
    \/ \E fetched \in BOOLEAN : CheckJudge(s, fetched)
    \/ CheckSave(s)
    \/ CheckReply(s)

NextCheck ==
    \/ \E s \in Slots, u \in PlatformUsers :
           Deliver(s, MaxChecks, "check", u, "g1", FALSE, Null, NoChannel)
    \/ \E s \in Slots : CheckHandler(s)
    \/ \E s \in Slots : Refresh(s)
    \/ Submit(HandleA, ProblemA, "OK", Len(EarlierSubs) + MaxSubs)

SpecCheck == InitCheck /\ [][NextCheck]_vars

(***************************************************************************)
(* check whatever the guild and the caller have done before: u1 may have   *)
(* logged in, u2 has not; the guild may have no record, a record without   *)
(* a daily problem, or a daily problem.                                    *)
(***************************************************************************)
InitCheckAny ==
    /\ \E daily \in {Null, DailyA}, channelId \in {Null, ChannelC1} :
           servers \in { <<>>, << [NewServer("g1") EXCEPT !.daily = daily,
                                                         !.channelId = channelId] >> }
    /\ users \in { <<>>, SubSeq(LoggedInUsers, 1, 1) }
    /\ subs = [h \in Handles |-> EarlierSubs]
    /\ controls = {}
    /\ inter = [s \in Slots |-> Idle]
    /\ task = [s \in Slots |-> NoTask]
    /\ posts = <<>>
    /\ started = 0
    /\ PureIdle

SpecCheckAny == InitCheckAny /\ [][NextCheck]_vars

(***************************************************************************)
(* check run one interaction after the other, from an empty member list: a *)
(* new interaction is delivered only when no handler is running (a         *)
(* detached leaderboard update may still be).                              *)
(***************************************************************************)
Quiescent == \A s \in Slots : inter[s].pc \in {"idle", "done"}

InitCheckSeq == InitCheck /\ servers[1].members = <<>>

NextCheckSeq ==
    \/ /\ Quiescent
       /\ \E s \in Slots, u \in PlatformUsers :
              Deliver(s, MaxChecks, "check", u, "g1", FALSE, Null, NoChannel)
    \/ \E s \in Slots : CheckHandler(s)
    \/ \E s \in Slots : Refresh(s)
    \/ Submit(HandleA, ProblemA, "OK", Len(EarlierSubs) + MaxSubs)

SpecCheckSeq == InitCheckSeq /\ [][NextCheckSeq]_vars

\* The same, every request a check handler awaits (store, judge, reply) being
\* answered in the end; nothing is assumed of the requests of a refresh.
SpecCheckLive ==
    InitCheckSeq /\ [][NextCheckSeq]_vars /\ \A s \in Slots : WF_vars(CheckHandler(s))

(***************************************************************************)
(* check in two guilds that both have a daily problem: u1 has logged in in *)
(* g1 only, u2 in g2 only; either may run check in either guild, one       *)
(* interaction after the other.                                            *)
(***************************************************************************)
LoggedInByGuild ==
    << [id |-> "u1", cfUsername |-> HandleA, guildId |-> "g1"],
       [id |-> "u2", cfUsername |-> HandleB, guildId |-> "g2"] >>

InitCheckGuilds ==
    /\ servers = << [NewServer("g1") EXCEPT !.daily = DailyA, !.channelId = ChannelC1],
                    [NewServer("g2") EXCEPT !.daily = DailyA] >>
    /\ users = LoggedInByGuild
    /\ subs = [h \in Handles |-> EarlierSubs]
    /\ controls = {}
    /\ inter = [s \in Slots |-> Idle]
    /\ task = [s \in Slots |-> NoTask]
    /\ posts = <<>>
    /\ started = 0
    /\ PureIdle

NextCheckGuilds ==
    \/ /\ Quiescent
       /\ \E s \in Slots, u \in PlatformUsers, g \in Guilds :
              Deliver(s, MaxChecks, "check", u, g, FALSE, Null, NoChannel)
    \/ \E s \in Slots : CheckHandler(s)
    \/ \E s \in Slots : Refresh(s)
    \/ Submit(HandleA, ProblemA, "OK", Len(EarlierSubs) + MaxSubs)

SpecCheckGuilds == InitCheckGuilds /\ [][NextCheckGuilds]_vars

(***************************************************************************)
(* setdailyproblem, setleaderboardchannel, setannouncementchannel.         *)
(***************************************************************************)
\* cmdInteraction.memberPermissions && memberPermissions.has(ManageGuild)
HasPermissionAny(rec) == TRUE

HasPermission(rec) == rec.perm

\* problems.some(p => p.contestId.toString() === contestId && p.index === index)
ProblemExistsAny(problems, contestId, index) == TRUE

ProblemExists(problems, contestId, index) ==
    \E p \in problems : NumberToString(p.contestId) = contestId /\ p.index = index

\* The permission test, the option and the format check, up to the await of
\* validateProblemUrl's request.
SetDailyBegin(s) ==
    /\ inter[s].pc = "setdailyproblem"
    /\ LET rec == inter[s]
           match == IF rec.arg = Null THEN NoMatch ELSE MatchProblemUrl(rec.arg)
       IN  inter' = [inter EXCEPT ![s] =
               IF ~HasPermission(rec) THEN ReplyAndEnd(rec, "Denied")
               ELSE IF rec.arg = Null THEN ReplyAndEnd(rec, "MissingUrl")
               ELSE IF ~match.matched THEN ReplyAndEnd(rec, "BadUrlFormat")
               ELSE [rec EXCEPT !.match = match, !.pc = "daily:validate"]]
    /\ UNCHANGED <<servers, users, subs, controls, task, posts, started,
                   rankIn, rankOut, urlIn, urlOut, uptimeIn, uptimeOut>>

\* validateProblemUrl answers; a failed request counts as "not a problem".
SetDailyValidate(s, fetched) ==
    /\ inter[s].pc = "daily:validate"
    /\ LET rec == Did(inter[s], "judge.problems")
           isValidProblem ==
               fetched /\ ProblemExists(Problems, rec.match.contestId, rec.match.index)
       IN  inter' = [inter EXCEPT ![s] =
               IF ~isValidProblem THEN ReplyAndEnd(rec, "InvalidProblem")
               ELSE [rec EXCEPT !.pc = "daily:find"]]
    /\ UNCHANGED <<servers, users, subs, controls, task, posts, started,
                   rankIn, rankOut, urlIn, urlOut, uptimeIn, uptimeOut>>

\* let server = await Server.findOne({ guildId })
AdminFind(s, at, next) ==
    /\ inter[s].pc = at
    /\ inter' = [inter EXCEPT ![s] =
           [Did(inter[s], "Server.findOne") EXCEPT
               !.doc = FindServer(inter[s].guild, FALSE, FALSE), !.pc = next]]
    /\ UNCHANGED <<servers, users, subs, controls, task, posts, started,
                   rankIn, rankOut, urlIn, urlOut, uptimeIn, uptimeOut>>

\* Server.create(fields) when the find returned null, otherwise the assignment
\* to the document read and server.save(), which sends $set of that one path.
\* warnings are computed from the handler's own document.
AdminWrite(s, at, next, path, value) ==
    /\ inter[s].pc = at
    /\ LET rec == inter[s]
           created == [NewServer(rec.guild) EXCEPT ![path] = value]
           stored == IF rec.doc = NoDoc THEN Append(servers, created)
                     ELSE [servers EXCEPT ![rec.doc.oid][path] = value]
           mine == IF rec.doc = NoDoc THEN created ELSE [rec.doc EXCEPT ![path] = value]
       IN  /\ servers' = stored
           /\ inter' = [inter EXCEPT ![s] =
                  [Did(rec, IF rec.doc = NoDoc THEN "Server.create" ELSE "Server.save")
                   EXCEPT !.doc = NoDoc,
                          !.warnings =
                              (IF mine.announcementChannelId = Null
                               THEN {"NoAnnouncementChannel"} ELSE {})
                              \cup (IF mine.channelId = Null
                                    THEN {"NoLeaderboardChannel"} ELSE {}),
                          !.pc = next]]
    /\ UNCHANGED <<users, subs, controls, task, posts, started,
                   rankIn, rankOut, urlIn, urlOut, uptimeIn, uptimeOut>>

SetDailyFind(s) == AdminFind(s, "daily:find", "daily:write")

SetDailyWrite(s) ==
    AdminWrite(s, "daily:write", "announce:find", "daily",
               ProblemIdOf(inter[s].match.contestId, inter[s].match.index))

\* announce returning false taken for an error of the command.
AnnounceFailedThrows(rec) == ReplyAndEnd(rec, "DailyError")

\* announce returns false: one more warning, and on to the reply.
AnnounceFailed(rec) ==
    [rec EXCEPT !.warnings = @ \cup {"AnnouncementFailed"}, !.doc = NoDoc, !.pc = "daily:reply"]

\* announce: Server.findOne({ guildId }).populate("members.user") and the tests
\* up to await fetchTextChannel(server.announcementChannelId).
AnnounceFind(s) ==
    /\ inter[s].pc = "announce:find"
    /\ LET rec == Did(inter[s], "announce.findOne")
           server == FindServer(rec.guild, FALSE, TRUE)
       IN  inter' = [inter EXCEPT ![s] =
               IF server = NoDoc THEN AnnounceFailed(rec)
               ELSE IF server.daily = Null \/ server.announcementChannelId = Null
                    THEN AnnounceFailed(rec)
                    ELSE [rec EXCEPT !.doc = server, !.pc = "announce:channel"]]
    /\ UNCHANGED <<servers, users, subs, controls, task, posts, started,
                   rankIn, rankOut, urlIn, urlOut, uptimeIn, uptimeOut>>

\* fetchTextChannel answers the channel or null.
AnnounceChannel(s, found) ==
    /\ inter[s].pc = "announce:channel"
    /\ inter' = [inter EXCEPT ![s] =
           IF ~found THEN AnnounceFailed(inter[s])
           ELSE [inter[s] EXCEPT !.pc = "announce:send"]]
    /\ UNCHANGED <<servers, users, subs, controls, task, posts, started,
                   rankIn, rankOut, urlIn, urlOut, uptimeIn, uptimeOut>>

\* await channel.send({ embeds: [embed] }) with the daily problem announce read;
\* an error of the call is caught by announce, which returns false.
AnnounceSend(s, sent) ==
    /\ inter[s].pc = "announce:send"
    /\ posts' = IF ~sent THEN posts
                ELSE Append(posts, [channel |-> inter[s].doc.announcementChannelId,
                                    kind |-> "announcement",
                                    text |-> StrProblemsetUrl \o inter[s].doc.daily,
                                    edits |-> 0])
    /\ inter' = [inter EXCEPT ![s] =
           IF ~sent THEN AnnounceFailed(Did(inter[s], "channel.send.failed"))
           ELSE [Did(inter[s], "channel.send") EXCEPT !.doc = NoDoc, !.pc = "daily:reply"]]
    /\ UNCHANGED <<servers, users, subs, controls, task, started,
                   rankIn, rankOut, urlIn, urlOut, uptimeIn, uptimeOut>>

SetDailyReply(s) ==
    /\ inter[s].pc = "daily:reply"
    /\ inter' = [inter EXCEPT ![s] = ReplyAndEnd(inter[s], "DailySet")]
    /\ UNCHANGED <<servers, users, subs, controls, task, posts, started,
                   rankIn, rankOut, urlIn, urlOut, uptimeIn, uptimeOut>>

SetDailyProblem(s) ==
    \/ SetDailyBegin(s)
    \/ \E fetched \in BOOLEAN : SetDailyValidate(s, fetched)
    \/ SetDailyFind(s)
    \/ SetDailyWrite(s)
    \/ AnnounceFind(s)
    \/ \E found \in BOOLEAN : AnnounceChannel(s, found)
    \/ \E sent \in BOOLEAN : AnnounceSend(s, sent)
    \/ SetDailyReply(s)

\* The permission test and the channel option, up to await Server.findOne.
SetChannelBegin(s, cmd, next) ==
    /\ inter[s].pc = cmd
    /\ LET rec == inter[s]
       IN  inter' = [inter EXCEPT ![s] =
               IF ~HasPermission(rec) THEN ReplyAndEnd(rec, "Denied")
               ELSE IF rec.chan.id = Null \/ ~rec.chan.sendable
                    THEN ReplyAndEnd(rec, "InvalidChannel")
                    ELSE [rec EXCEPT !.pc = next]]
    /\ UNCHANGED <<servers, users, subs, controls, task, posts, started,
                   rankIn, rankOut, urlIn, urlOut, uptimeIn, uptimeOut>>

\* The reply after await server.save() (which has nothing left to write when
\* the document was just created).
SetChannelReply(s, at) ==
    /\ inter[s].pc = at
    /\ inter' = [inter EXCEPT ![s] = ReplyAndEnd(inter[s], "ChannelSet")]
    /\ UNCHANGED <<servers, users, subs, controls, task, posts, started,
                   rankIn, rankOut, urlIn, urlOut, uptimeIn, uptimeOut>>

SetLeaderboardChannel(s) ==
    \/ SetChannelBegin(s, "setleaderboardchannel", "lbchan:find")
    \/ AdminFind(s, "lbchan:find", "lbchan:write")
    \/ AdminWrite(s, "lbchan:write", "lbchan:reply", "channelId", inter[s].chan.id)
    \/ SetChannelReply(s, "lbchan:reply")

SetAnnouncementChannel(s) ==
    \/ SetChannelBegin(s, "setannouncementchannel", "annchan:find")
    \/ AdminFind(s, "annchan:find", "annchan:write")
    \/ AdminWrite(s, "annchan:write", "annchan:reply", "announcementChannelId",
                  inter[s].chan.id)
    \/ SetChannelReply(s, "annchan:reply")

(***************************************************************************)
(* Configuration of a guild the bot has just joined: the three commands,   *)
(* overlapping, from callers with and without ManageGuild.                 *)
(***************************************************************************)
UrlGoodA == StrProblemsetUrl \o DailyA
UrlUnknown == StrProblemsetUrl \o ProblemIdOf(<<"2">>, <<"A">>)

\* problem_url options an administrator sends (Null: the option is absent).
AdminUrls ==
    { Null, StrExampleUrl, UrlUnknown, UrlGoodA,
      ContestProblemUrl(NumberToString(ProblemA.contestId), ProblemA.index) }

\* channel options: a text channel, a channel without send, none.
AdminChannels ==
    { [id |-> ChannelC1, sendable |-> TRUE], [id |-> ChannelC2, sendable |-> FALSE],
      NoChannel }

InitAdmin == AtRest /\ PureIdle

DeliverAdmin(s) ==
    \/ \E url \in AdminUrls :
           Deliver(s, MaxAdmin, "setdailyproblem", "u1", "g1", TRUE, url, NoChannel)
    \/ Deliver(s, MaxAdmin, "setdailyproblem", "u2", "g1", FALSE, UrlGoodA, NoChannel)
    \/ \E cmd \in {"setleaderboardchannel", "setannouncementchannel"} :
           \/ \E chan \in AdminChannels :
                  Deliver(s, MaxAdmin, cmd, "u1", "g1", TRUE, Null, chan)
           \/ Deliver(s, MaxAdmin, cmd, "u2", "g1", FALSE, Null,
                      [id |-> ChannelC1, sendable |-> TRUE])

NextAdmin ==
    \/ \E s \in Slots : DeliverAdmin(s)
    \/ \E s \in Slots : SetDailyProblem(s)
    \/ \E s \in Slots : SetLeaderboardChannel(s)
    \/ \E s \in Slots : SetAnnouncementChannel(s)

SpecAdmin == InitAdmin /\ [][NextAdmin]_vars

(***************************************************************************)
(* login and the Done button.  A control is [user, guild, customId] as the *)
(* platform keeps it on the ephemeral reply, id being the message it is    *)
(* on, with handle and problemId, the values login built customId from,    *)
(* and rejected, the history of its presses: TRUE once the handler of a    *)
(* press has turned the attempt down.                                      *)
(***************************************************************************)
NoContestId == -2      \* problem.contestId of a submission that has none

\* customId: `done|${cfUsername}|${problemId}`
CustomId(cfUsername, problemId) ==
    StrDone \o <<"|">> \o cfUsername \o <<"|">> \o problemId

\* The option test, up to await getRandomProblemUrl().
LoginBegin(s) ==
    /\ inter[s].pc = "login"
    /\ inter' = [inter EXCEPT ![s] =
           IF inter[s].arg = Null THEN ReplyAndEnd(inter[s], "MissingHandle")
           ELSE [inter[s] EXCEPT !.pc = "login:problem"]]
    /\ UNCHANGED <<servers, users, subs, controls, task, posts, started,
                   rankIn, rankOut, urlIn, urlOut, uptimeIn, uptimeOut>>

\* getRandomProblemUrl answers null or a problem of the set; the reply
\* carries the Done button.  When cmdInteraction.reply throws, the command's
\* catch block answers through safeReply.
LoginProblem(s, fetched, randomProblem, sent) ==
    /\ inter[s].pc = "login:problem"
    /\ LET rec == Did(inter[s], "judge.problems")
           problemId == ProblemIdOf(NumberToString(randomProblem.contestId),
                                    randomProblem.index)
           res == Respond(rec, "reply", "PressDone", sent)
       IN  IF ~fetched
           THEN /\ inter' = [inter EXCEPT ![s] = ReplyAndEnd(rec, "NoRandomProblem")]
                /\ UNCHANGED controls
           ELSE IF ~res.ok
           THEN /\ inter' = [inter EXCEPT ![s] = ReplyAndEnd(res.rec, "LoginError")]
                /\ UNCHANGED controls
           ELSE /\ inter' = [inter EXCEPT ![s] = End(res.rec)]
                /\ controls' = controls \cup
                       {[id |-> Cardinality(controls) + 1,
                         user |-> rec.user, guild |-> rec.guild,
                         customId |-> CustomId(rec.arg, problemId),
                         handle |-> rec.arg, problemId |-> problemId,
                         rejected |-> FALSE]}
    /\ UNCHANGED <<servers, users, subs, task, posts, started,
                   rankIn, rankOut, urlIn, urlOut, uptimeIn, uptimeOut>>

Login(s) ==
    \/ LoginBegin(s)
    \/ \E fetched, sent \in BOOLEAN, p \in Problems : LoginProblem(s, fetched, p, sent)

\* parts[1] and parts[2] of customId.split('|'), and problemId.split('/')
ButtonHandle(customId) == At(Split(customId, "|"), 1)

ButtonProblemId(customId) == At(Split(customId, "|"), 2)

\* The catch around the whole interaction handler.
TopLevelCatch(rec) ==
    IF rec.replied THEN End(rec)
    ELSE End(Respond(rec, "reply", "Unexpected", TRUE).rec)

\* The prefix test and the split, up to await lastcfSubmission(cfUsername).
ButtonBegin(s) ==
    /\ inter[s].pc = "button"
    /\ LET rec == inter[s]
           problemId == ButtonProblemId(rec.arg)
       IN  inter' = [inter EXCEPT ![s] =
               IF ~HasPrefixAt(rec.arg, 1, StrDone \o <<"|">>) THEN End(rec)
               ELSE IF ButtonHandle(rec.arg) = Null THEN ReplyAndEnd(rec, "InvalidUsername")
               ELSE [rec EXCEPT !.match = [matched |-> TRUE,
                                           contestId |-> At(Split(problemId, "/"), 0),
                                           index |-> At(Split(problemId, "/"), 1)],
                                !.pc = "button:judge"]]
    /\ UNCHANGED <<servers, users, subs, controls, task, posts, started,
                   rankIn, rankOut, urlIn, urlOut, uptimeIn, uptimeOut>>

\* lastcfSubmission: result[0] of user.status?from=1&count=1, null when the
\* request fails or the result is empty.
LastcfSubmission(handle, fetched) ==
    IF fetched /\ JudgeKnows(handle) /\ subs[handle] # <<>>
    THEN Head(subs[handle]) ELSE NoDoc

\* The three comparisons of the button handler.
VerifiesLoginAnyVerdict(lastSubmission, contestId, problemIndex) ==
    /\ NumberToString(lastSubmission.problem.contestId) = contestId
    /\ lastSubmission.problem.index = problemIndex

VerifiesLogin(lastSubmission, contestId, problemIndex) ==
    /\ NumberToString(lastSubmission.problem.contestId) = contestId
    /\ lastSubmission.problem.index = problemIndex
    /\ lastSubmission.verdict = "COMPILATION_ERROR"

\* The press of a control: the button interaction carries customId and the
\* message the button is on.
Pressed(c) ==
    [Fresh("button", c.user, c.guild, FALSE, c.customId, NoChannel) EXCEPT !.control = c.id]

Press(s, limit, c) == Arrive(s, limit, Pressed(c))

\* The controls, with the one pressed on record as turned down.
Rejected(id) == {[c EXCEPT !.rejected = @ \/ c.id = id] : c \in controls}

\* lastcfSubmission answers; contestId.toString() throws on a submission
\* whose problem has no contestId.
ButtonJudge(s, fetched) ==
    /\ inter[s].pc = "button:judge"
    /\ LET lastSubmission == LastcfSubmission(ButtonHandle(inter[s].arg), fetched)
           rec == [Did(inter[s], "judge.status") EXCEPT !.sub = lastSubmission]
           verified == /\ lastSubmission # NoDoc
                       /\ lastSubmission.problem.contestId # NoContestId
                       /\ VerifiesLogin(lastSubmission, rec.match.contestId,
                                        rec.match.index)
       IN  /\ inter' = [inter EXCEPT ![s] =
                  IF lastSubmission = NoDoc THEN ReplyAndEnd(rec, "NoSubmission")
                  ELSE IF lastSubmission.problem.contestId = NoContestId
                       THEN TopLevelCatch(rec)
                  ELSE IF verified THEN [rec EXCEPT !.pc = "button:save"]
                       ELSE ReplyAndEnd(rec, "Mismatch")]
           /\ controls' = IF verified THEN controls ELSE Rejected(rec.control)
    /\ UNCHANGED <<servers, users, subs, task, posts, started,
                   rankIn, rankOut, urlIn, urlOut, uptimeIn, uptimeOut>>

\* The save skipped when the store has a User document with this id already.
ButtonSaveOnce(s) ==
    /\ inter[s].pc = "button:save"
    /\ users' = IF \E k \in DOMAIN users : users[k].id = inter[s].user
                THEN users
                ELSE Append(users, [id |-> inter[s].user,
                                    cfUsername |-> ButtonHandle(inter[s].arg),
                                    guildId |-> inter[s].guild])
    /\ inter' = [inter EXCEPT ![s] = ReplyAndEnd(Did(inter[s], "User.save"), "SignedIn")]
    /\ UNCHANGED <<servers, subs, controls, task, posts, started,
                   rankIn, rankOut, urlIn, urlOut, uptimeIn, uptimeOut>>

\* await new User({ id, cfUsername, guildId }).save(), then the reply.
ButtonSave(s) ==
    /\ inter[s].pc = "button:save"
    /\ users' = Append(users, [id |-> inter[s].user,
                               cfUsername |-> ButtonHandle(inter[s].arg),
                               guildId |-> inter[s].guild])
    /\ inter' = [inter EXCEPT ![s] = ReplyAndEnd(Did(inter[s], "User.save"), "SignedIn")]
    /\ UNCHANGED <<servers, subs, controls, task, posts, started,
                   rankIn, rankOut, urlIn, urlOut, uptimeIn, uptimeOut>>

Button(s) ==
    \/ ButtonBegin(s)
    \/ \E fetched \in BOOLEAN : ButtonJudge(s, fetched)
    \/ ButtonSave(s)

(***************************************************************************)
(* Signing in: users ask for a challenge, submit to the judge and press    *)
(* Done, in any order and overlapping.                                     *)
(***************************************************************************)
HandlePiped == HandleA \o <<"|">> \o DailyA
ProblemGym == [contestId |-> NoContestId, index |-> <<"A">>]

\* handle options u1 sends to login (Null: the option is absent); u2 asks
\* for HandleA as well.
LoginHandles == {Null, HandleA, HandlePiped}

\* What the owner of HandleA submits meanwhile.
LoginSubmissions ==
    { [problem |-> ProblemA, verdict |-> "COMPILATION_ERROR"],
      [problem |-> ProblemA, verdict |-> "OK"],
      [problem |-> ProblemB, verdict |-> "COMPILATION_ERROR"],
      [problem |-> ProblemGym, verdict |-> "COMPILATION_ERROR"] }

InitLogin == AtRest /\ PureIdle

NextLogin ==
    \/ \E s \in Slots, h \in LoginHandles :
           Deliver(s, MaxLogins, "login", "u1", "g1", FALSE, h, NoChannel)
    \/ \E s \in Slots : Deliver(s, MaxLogins, "login", "u2", "g1", FALSE, HandleA, NoChannel)
    \/ \E s \in Slots, c \in controls : Press(s, MaxLogins, c)
    \/ \E s \in Slots : Login(s)
    \/ \E s \in Slots : Button(s)
    \/ \E sub \in LoginSubmissions : Submit(HandleA, sub.problem, sub.verdict, MaxSubs)

SpecLogin == InitLogin /\ [][NextLogin]_vars

(***************************************************************************)
(* ping, help, botinfo and the leaderboard command.                        *)
(***************************************************************************)
\* The commands' catch blocks: safeReply with the command's error message.
CommandCatch(rec, msg) == ReplyAndEnd(rec, msg)

\* const sent = await cmdInteraction.reply({ ..., fetchReply: true })
PingReply(s, sent) ==
    /\ inter[s].pc = "ping"
    /\ LET res == Respond(inter[s], "reply", "Pinging", sent)
       IN  inter' = [inter EXCEPT ![s] =
               IF res.ok THEN [res.rec EXCEPT !.pc = "ping:edit"]
               ELSE CommandCatch(res.rec, "PingError")]
    /\ UNCHANGED <<servers, users, subs, controls, task, posts, started,
                   rankIn, rankOut, urlIn, urlOut, uptimeIn, uptimeOut>>

\* await cmdInteraction.editReply({ embeds: [embed] })
PingEdit(s, sent) ==
    /\ inter[s].pc = "ping:edit"
    /\ LET res == Respond(inter[s], "editReply", "Pong", sent)
       IN  inter' = [inter EXCEPT ![s] =
               IF res.ok THEN End(res.rec) ELSE CommandCatch(res.rec, "PingError")]
    /\ UNCHANGED <<servers, users, subs, controls, task, posts, started,
                   rankIn, rankOut, urlIn, urlOut, uptimeIn, uptimeOut>>

Ping(s) ==
    \/ \E sent \in BOOLEAN : PingReply(s, sent)
    \/ \E sent \in BOOLEAN : PingEdit(s, sent)

\* help and botinfo build their embed and answer through safeReplyEmbed.
Info(s) ==
    /\ inter[s].pc \in {"help", "botinfo"}
    /\ inter' = [inter EXCEPT ![s] =
           ReplyAndEnd(inter[s], IF inter[s].cmd = "help" THEN "Help" ELSE "BotInfo")]
    /\ UNCHANGED <<servers, users, subs, controls, task, posts, started,
                   rankIn, rankOut, urlIn, urlOut, uptimeIn, uptimeOut>>

\* Server.findOne({ guildId }).populate("members.user"), the tests, the sort
\* of the document in memory and the rendering, up to the await of the reply.
LeaderboardFind(s, answered) ==
    /\ inter[s].pc = "leaderboard"
    /\ LET rec == Did(inter[s], "Server.findOne")
           server == FindServer(rec.guild, FALSE, TRUE)
       IN  inter' = [inter EXCEPT ![s] =
               IF ~answered THEN CommandCatch(rec, "LeaderboardError")
               ELSE IF server = NoDoc THEN [rec EXCEPT !.embed = "NoDailyProblem",
                                                       !.pc = "leaderboard:reply"]
               ELSE IF server.daily = Null THEN [rec EXCEPT !.embed = "NoDailyProblem",
                                                            !.pc = "leaderboard:reply"]
               ELSE IF server.members = <<>> THEN [rec EXCEPT !.embed = "NoMembers",
                                                              !.pc = "leaderboard:reply"]
               ELSE [rec EXCEPT !.embed = "Leaderboard",
                                !.text = RenderLeaderboard(server.members),
                                !.pc = "leaderboard:reply"]]
    /\ UNCHANGED <<servers, users, subs, controls, task, posts, started,
                   rankIn, rankOut, urlIn, urlOut, uptimeIn, uptimeOut>>

\* return await cmdInteraction.reply(...); the catch block answers through
\* safeReplyEmbed.
LeaderboardReply(s, sent) ==
    /\ inter[s].pc = "leaderboard:reply"
    /\ LET res == Respond(inter[s], "reply", inter[s].embed, sent)
       IN  inter' = [inter EXCEPT ![s] =
               IF res.ok THEN End(res.rec) ELSE CommandCatch(res.rec, "LeaderboardError")]
    /\ UNCHANGED <<servers, users, subs, controls, task, posts, started,
                   rankIn, rankOut, urlIn, urlOut, uptimeIn, uptimeOut>>

Leaderboard(s) ==
    \/ \E answered \in BOOLEAN : LeaderboardFind(s, answered)
    \/ \E sent \in BOOLEAN : LeaderboardReply(s, sent)

(***************************************************************************)
(* Every command and the button in a configured guild, one interaction     *)
(* after the other, the platform accepting responses or not.               *)
(***************************************************************************)
\* The interactions the gateway delivers.
Interactions ==
    { Fresh(cmd, "u1", "g1", FALSE, Null, NoChannel) :
          cmd \in {"ping", "help", "botinfo", "leaderboard", "check"} }
    \cup { Fresh("login", "u1", "g1", FALSE, HandleA, NoChannel) }
    \cup { Fresh("setdailyproblem", "u1", "g1", perm, UrlGoodA, NoChannel) :
               perm \in BOOLEAN }
    \cup { Fresh(cmd, "u1", "g1", TRUE, Null, [id |-> ChannelC1, sendable |-> TRUE]) :
               cmd \in {"setleaderboardchannel", "setannouncementchannel"} }
    \cup { Pressed(c) : c \in controls }

InitReply == InitCheck

NextReply ==
    \/ /\ Quiescent
       /\ \E s \in Slots, rec \in Interactions, expired \in BOOLEAN :
              Arrive(s, MaxReplies, [rec EXCEPT !.expired = expired])
    \/ \E s \in Slots : Ping(s)
    \/ \E s \in Slots : Info(s)
    \/ \E s \in Slots : Leaderboard(s)
    \/ \E s \in Slots : Login(s)
    \/ \E s \in Slots : Button(s)
    \/ \E s \in Slots : CheckHandler(s)
    \/ \E s \in Slots : Refresh(s)
    \/ \E s \in Slots : SetDailyProblem(s)
    \/ \E s \in Slots : SetLeaderboardChannel(s)
    \/ \E s \in Slots : SetAnnouncementChannel(s)
    \/ \E sub \in LoginSubmissions :
           Submit(HandleA, sub.problem, sub.verdict, Len(EarlierSubs) + MaxSubs)

SpecReply == InitReply /\ [][NextReply]_vars

(***************************************************************************)
(* Signing in again: u1 signed in as HandleB earlier, and now signs in as  *)
(* HandleA and runs check, one interaction after the other.  The guild has *)
(* a daily problem and a leaderboard channel, with or without a            *)
(* leaderboard message already there.                                      *)
(***************************************************************************)
SignedInBefore == << [id |-> "u1", cfUsername |-> HandleB, guildId |-> "g1"] >>

PostedBefore ==
    << [channel |-> ChannelC1, kind |-> "leaderboard", text |-> <<>>, edits |-> 0] >>

InitRelogin ==
    /\ \E before \in {<<>>, PostedBefore} :
           /\ posts = before
           /\ servers = << [NewServer("g1") EXCEPT
                               !.daily = DailyA,
                               !.channelId = ChannelC1,
                               !.messageId = IF before = <<>> THEN Null
                                             ELSE NumberToString(1)] >>
    /\ users = SignedInBefore
    /\ subs = [h \in Handles |-> <<>>]
    /\ controls = {}
    /\ inter = [s \in Slots |-> Idle]
    /\ task = [s \in Slots |-> NoTask]
    /\ started = 0
    /\ PureIdle

NextRelogin ==
    \/ /\ Quiescent
       /\ \E s \in Slots :
              \/ Deliver(s, MaxLogins, "login", "u1", "g1", FALSE, HandleA, NoChannel)
              \/ \E c \in controls : Press(s, MaxLogins, c)
              \/ Deliver(s, MaxLogins, "check", "u1", "g1", FALSE, Null, NoChannel)
    \/ \E s \in Slots : Login(s)
    \/ \E s \in Slots : Button(s)
    \/ \E s \in Slots : CheckHandler(s)
    \/ \E s \in Slots : Refresh(s)
    \/ \E sub \in LoginSubmissions : Submit(HandleA, sub.problem, sub.verdict, MaxSubs)

SpecRelogin == InitRelogin /\ [][NextRelogin]_vars

(***************************************************************************)
(* The renderer on its own: any member list within the bounds, rendered.   *)
(***************************************************************************)
RankUserDocs ==
    { [id |-> "u1", cfUsername |-> HandleA, guildId |-> "g1"],
      [id |-> "u2", cfUsername |-> HandleB, guildId |-> "g1"],
      [id |-> "u3", cfUsername |-> HandleB, guildId |-> "g1"] }

RankMembers ==
    [user : RankUserDocs \cup {NoDoc}, points : 0..MaxPoints, lastSubmitted : {Null}]

RankInputs == UNION { [1..n -> RankMembers] : n \in 0..MaxMembers }

InitRank ==
    /\ AtRest
    /\ rankIn \in RankInputs
    /\ rankOut = NotRendered
    /\ urlIn = Null /\ urlOut = NotMatched
    /\ uptimeIn = 0 /\ uptimeOut = NotFormatted

Render ==
    /\ rankOut' = [done |-> TRUE, lines |-> RenderLeaderboard(rankIn)]
    /\ UNCHANGED <<servers, users, subs, controls, inter, task, posts, started,
                   rankIn, urlIn, urlOut, uptimeIn, uptimeOut>>

SpecRank == InitRank /\ [][Render]_vars

(***************************************************************************)
(* The format check on its own: URLs built from path segments.             *)
(***************************************************************************)
UrlSegments ==
    { <<"c", "o", "n", "t", "e", "s", "t">>,
      <<"p", "r", "o", "b", "l", "e", "m", "s", "e", "t">>,
      <<"p", "r", "o", "b", "l", "e", "m">>,
      <<"1", "5", "0", "0">>, <<"2">>, <<"A">>, <<"B", "1">>, <<"f", "o", "o">> }

UrlContestIds == {<<"1", "5", "0", "0">>, <<"2">>}
UrlIndexes == {<<"A">>, <<"B", "1">>}

RECURSIVE JoinPath(_)
JoinPath(segs) ==
    IF segs = <<>> THEN <<>> ELSE <<"/">> \o Head(segs) \o JoinPath(Tail(segs))

UrlInputs ==
    {StrExampleUrl} \cup
    { StrHost \o JoinPath(segs) : segs \in UNION { [1..n -> UrlSegments] : n \in 1..4 } }

InitUrl ==
    /\ AtRest
    /\ urlIn \in UrlInputs
    /\ urlOut = NotMatched
    /\ rankIn = <<>> /\ rankOut = NotRendered
    /\ uptimeIn = 0 /\ uptimeOut = NotFormatted

FormatCheck ==
    /\ urlOut' = [done |-> TRUE, match |-> MatchProblemUrl(urlIn)]
    /\ UNCHANGED <<servers, users, subs, controls, inter, task, posts, started,
                   rankIn, rankOut, urlIn, uptimeIn, uptimeOut>>

SpecUrl == InitUrl /\ [][FormatCheck]_vars

(***************************************************************************)
(* formatUptime on its own: the bot's uptime in seconds, as botinfo shows  *)
(* it.  The parameter is reassigned as the function goes; each LET below   *)
(* is one of its statements.                                               *)
(***************************************************************************)
\* `${days}d, ${hours}h, ${minutes}m, ${seconds}s`
UptimeText(days, hours, minutes, seconds) ==
    NumberToString(days) \o <<"d", ",", " ">> \o
    NumberToString(hours) \o <<"h", ",", " ">> \o
    NumberToString(minutes) \o <<"m", ",", " ">> \o
    NumberToString(seconds) \o <<"s">>

\* formatUptime with the hours and minutes taken from the whole count.
formatUptimeTotals(seconds) ==
    UptimeText(seconds \div 86400, seconds \div 3600, seconds \div 60, seconds % 60)

formatUptime(seconds) ==
    LET days == seconds \div 86400
        seconds1 == seconds % 86400
        hours == seconds1 \div 3600
        seconds2 == seconds1 % 3600
        minutes == seconds2 \div 60
        seconds3 == seconds2 % 60
    IN  UptimeText(days, hours, minutes, seconds3)

UptimeInputs == 0..MaxUptime

InitUptime ==
    /\ AtRest
    /\ uptimeIn \in UptimeInputs
    /\ uptimeOut = NotFormatted
    /\ rankIn = <<>> /\ rankOut = NotRendered
    /\ urlIn = Null /\ urlOut = NotMatched

Format ==
    /\ uptimeOut' = [done |-> TRUE, text |-> formatUptime(uptimeIn)]
    /\ UNCHANGED <<servers, users, subs, controls, inter, task, posts, started,
                   rankIn, rankOut, urlIn, urlOut, uptimeIn>>

SpecUptime == InitUptime /\ [][Format]_vars

(***************************************************************************)
(* The claims.                                                             *)
(***************************************************************************)
LastReply(s) == inter[s].replies[Len(inter[s].replies)].msg

Ended(s, cmd) == inter[s].pc = "done" /\ inter[s].cmd = cmd /\ inter[s].replies # <<>>

\* The step of handler s, if this step is one.
Steps(s) == inter[s].pc \notin {"idle", "done"} /\ inter'[s] # inter[s]

\* The stored points of the member entries of the user with Discord ID id
\* in document d, in stored order.
StoredPoints(d, id) ==
    LET ms == servers[d].members
        hit == {k \in DOMAIN ms : ms[k].user \in DOMAIN users /\ users[ms[k].user].id = id}
    IN  [k \in hit |-> ms[k].points]

\* C1 (as claimed): checks run one after the other, the daily problem never
\* changes; once a user's first check has stored their member entry, and as
\* long as their handle has no accepted submission for the daily problem,
\* no later step raises that member's points.
C1_RecheckNoIncrement ==
    [][\A k \in DOMAIN servers[1].members :
          LET m == servers[1].members[k]
              user == users[m.user]
          IN  ~HasSolved(subs'[user.cfUsername], servers[1].daily) =>
                  \A j \in DOMAIN servers'[1].members :
                      servers'[1].members[j].user = m.user =>
                          servers'[1].members[j].points <= m.points]_vars

\* The submission has the contestId and the index that customId carries, and
\* verdict COMPILATION_ERROR.
C2_Verified(sub, customId) ==
    LET problemId == At(Split(customId, "|"), 2)
    IN  /\ sub # NoDoc
        /\ sub.problem.contestId # NoContestId
        /\ NumberToString(sub.problem.contestId) = At(Split(problemId, "/"), 0)
        /\ sub.problem.index = At(Split(problemId, "/"), 1)
        /\ sub.verdict = "COMPILATION_ERROR"

\* C2: a UserRecord is added only by a Done-button handler, for the handle in
\* its control, whose fetched submission has the control's contestId, its
\* index and verdict COMPILATION_ERROR; what the handler fetched is nothing or
\* the handle's latest submission; and when the fetch brought nothing or one
\* of the three differs, the handler ends with a rejection and without having
\* saved, otherwise it goes on to save.
C2_LoginGate ==
    [][/\ users' # users =>
              \E s \in Slots :
                  /\ Steps(s)
                  /\ inter[s].cmd = "button"
                  /\ C2_Verified(inter[s].sub, inter[s].arg)
                  /\ users' = Append(users, [id |-> inter[s].user,
                                             cfUsername |-> At(Split(inter[s].arg, "|"), 1),
                                             guildId |-> inter[s].guild])
       /\ \A s \in Slots :
              (Steps(s) /\ inter[s].pc = "button:judge") =>
                  /\ inter'[s].sub = NoDoc
                         \/ inter'[s].sub = Head(subs[At(Split(inter[s].arg, "|"), 1)])
                  /\ IF C2_Verified(inter'[s].sub, inter[s].arg)
                     THEN inter'[s].pc = "button:save"
                     ELSE /\ inter'[s].pc = "done"
                          /\ inter'[s].replies[Len(inter'[s].replies)].msg
                                 \in {"NoSubmission", "Mismatch", "Unexpected"}
                          /\ "User.save" \notin inter'[s].did]_vars

\* C2 (witness): a press of Done was verified and answered with the sign-in,
\* and the store holds the UserRecord.
C2_SignedIn ==
    \E s \in Slots :
        /\ Ended(s, "button")
        /\ LastReply(s) = "SignedIn"
        /\ C2_Verified(inter[s].sub, inter[s].arg)
        /\ \E k \in DOMAIN users : users[k].id = inter[s].user

\* C3: when every member's user resolves, the rendered lines are the members
\* in descending order of points, one line per member, each with rank
\* 1 + (number of members with strictly more points); with all points
\* distinct the ranks are 1..N in order.
AllResolved == \A k \in DOMAIN rankIn : rankIn[k].user # NoDoc

C3_CompetitionRanking ==
    (rankOut.done /\ AllResolved) =>
        LET L == rankOut.lines
            n == Len(rankIn)
            higher(p) == Cardinality({j \in 1..n : rankIn[j].points > p})
            same(id, p) == {j \in 1..n : rankIn[j].user.id = id /\ rankIn[j].points = p}
            shown(id, p) == {j \in 1..Len(L) : L[j].id = id /\ L[j].points = p}
        IN  /\ Len(L) = n
            /\ \A k \in 1..(Len(L) - 1) : L[k].points >= L[k + 1].points
            /\ \A k \in 1..Len(L) :
                   /\ L[k].rank = 1 + higher(L[k].points)
                   /\ Cardinality(shown(L[k].id, L[k].points))
                          = Cardinality(same(L[k].id, L[k].points))
            /\ (\A i, j \in 1..n : rankIn[i].points = rankIn[j].points => i = j)
                   => \A k \in 1..Len(L) : L[k].rank = k

\* Two members tied at the top and one below: ranks 1, 1, 3.
C3_TieRendered ==
    /\ rankOut.done /\ AllResolved
    /\ Len(rankIn) = 3
    /\ [k \in 1..Len(rankOut.lines) |-> rankOut.lines[k].rank] = <<1, 1, 3>>
    /\ [k \in 1..Len(rankOut.lines) |-> rankOut.lines[k].points] = <<2, 2, 1>>

\* C4 (as claimed): the format check accepts every URL of the form
\* https://codeforces.com/contest/<digits>/problem/<index> and extracts
\* contestId = <digits> and index = <index>.
C4_ContestUrlAccepted ==
    urlOut.done =>
        \A c \in UrlContestIds, i \in UrlIndexes :
            urlIn = ContestProblemUrl(c, i) =>
                urlOut.match = [matched |-> TRUE, contestId |-> c, index |-> i]

AdminCommands == {"setdailyproblem", "setleaderboardchannel", "setannouncementchannel"}

\* The problem_url option is absent, does not match the path pattern, or
\* names no problem of the judge's set.
C5_Invalid(rec) ==
    \/ rec.arg = Null
    \/ ~MatchProblemUrl(rec.arg).matched
    \/ ~\E p \in Problems :
           /\ NumberToString(p.contestId) = MatchProblemUrl(rec.arg).contestId
           /\ p.index = MatchProblemUrl(rec.arg).index

\* C5: a setdailyproblem call by a permitted caller whose URL is missing, does
\* not match the path pattern, or names a (contestId, index) that is not in
\* the judge's problem set never gets past validation, and a call that
\* validation turns down (the failed problem-list fetch included) ends with a
\* validation reply having changed no guild record, created none, sent no
\* announcement and called nothing but the judge's problem list.
C5_ValidationBeforeMutation ==
    [][\A s \in Slots :
           (Steps(s) /\ inter[s].cmd = "setdailyproblem" /\ inter[s].perm
            /\ (C5_Invalid(inter[s]) \/ (inter[s].pc = "daily:validate" /\ inter'[s].pc = "done")))
           => /\ inter'[s].pc \in {"daily:validate", "done"}
              /\ inter'[s].pc = "done" =>
                     inter'[s].replies[Len(inter'[s].replies)].msg
                         \in {"MissingUrl", "BadUrlFormat", "InvalidProblem"}
              /\ inter'[s].did \subseteq {"judge.problems"}
              /\ servers' = servers
              /\ posts' = posts]_vars

\* C5 (witness): a call naming a problem the judge does not have was turned
\* down while the guild has a record, which still has no daily problem.
C5_UnknownProblemRejected ==
    \E s \in Slots :
        /\ Ended(s, "setdailyproblem")
        /\ inter[s].arg = UrlUnknown
        /\ LastReply(s) = "InvalidProblem"
        /\ servers # <<>>
        /\ \A k \in DOMAIN servers : servers[k].daily = Null

\* C6: a configuration command from a caller without ManageGuild ends in its
\* first step with the denial as its only reply, having made no call to the
\* store, the judge or a channel, and with every guild record and every
\* channel as they were.
C6_DeniedNoSideEffect ==
    [][\A s \in Slots :
           (Steps(s) /\ inter[s].cmd \in AdminCommands /\ ~inter[s].perm)
           => /\ inter'[s].pc = "done"
              /\ inter'[s].replies = <<[how |-> "reply", msg |-> "Denied"]>>
              /\ inter'[s].did = {}
              /\ servers' = servers
              /\ posts' = posts]_vars

\* C6 (witness): a setdailyproblem call with a valid URL from a caller without
\* the permission was denied while the guild has a record, which still has no
\* daily problem.
C6_DeniedCall ==
    \E s \in Slots :
        /\ Ended(s, "setdailyproblem")
        /\ ~inter[s].perm
        /\ LastReply(s) = "Denied"
        /\ servers # <<>>
        /\ \A k \in DOMAIN servers : servers[k].daily = Null

\* C7 (as claimed): no two guild records have the same guildId.
C7_OneRecordPerGuild ==
    \A j, k \in DOMAIN servers : servers[j].guildId = servers[k].guildId => j = k

\* C8 (as claimed): in every document no two member entries belong to the
\* same Discord user.
C8_MemberAtMostOnce ==
    \A d \in DOMAIN servers : \A id \in PlatformUsers :
        Cardinality(DOMAIN StoredPoints(d, id)) <= 1

\* C9: a check's save() writes what the handler computed from the document
\* it read, whatever is stored by then: an existing member's points become
\* the points read plus one (not the stored points plus one) and a new
\* entry is appended without looking the member up again.  So of two
\* overlapping checks only one update may remain.
C9_SaveWritesFromOwnRead ==
    [][\A s \in Slots :
          (inter[s].pc = "check:save" /\ inter'[s].pc = "check:reply") =>
              LET d == inter[s].delta
                  oid == inter[s].doc.oid
              IN  IF d.kind = "set"
                  THEN /\ servers'[oid].members[d.index].points
                              = inter[s].doc.members[d.index].points + 1
                       /\ servers'[oid].members[d.index].lastSubmitted = inter[s].doc.daily
                  ELSE servers'[oid].members = Append(servers[oid].members, d.entry)]_vars

\* Both checks of one user incremented the same member from the points they
\* read, both replied success, and the stored points show one increment.
C9_LostUpdate ==
    \E s, r \in Slots :
        /\ s # r
        /\ Ended(s, "check") /\ Ended(r, "check")
        /\ inter[s].user = inter[r].user
        /\ LastReply(s) \in {"Solved", "NotSolved"}
        /\ LastReply(r) \in {"Solved", "NotSolved"}
        /\ inter[s].delta.kind = "set" /\ inter[r].delta = inter[s].delta
        /\ servers[1].members[inter[s].delta.index].points = inter[s].delta.points

\* C10: when, in the document a check handler read, the caller's member entry
\* has lastSubmitted equal to the daily problem ID, the step that decides the
\* outcome leaves the store unchanged and schedules no save, and (the
\* judge's answer having arrived) the reply is "already submitted"; a
\* handler that replied "already submitted" has written nothing.
C10_ShortCircuit ==
    [][\A s \in Slots :
          /\ (/\ inter[s].pc = "check:judge" /\ inter'[s].pc # "check:judge"
              /\ LET k == FindMember(inter[s].doc.members, inter[s].udoc)
                 IN  k # 0 /\ inter[s].doc.members[k].lastSubmitted = inter[s].doc.daily)
             => /\ servers' = servers
                /\ inter'[s].pc \in {"check:reply", "done"}
                /\ inter'[s].delta = NoDelta
                /\ inter'[s].pc = "check:reply" => inter'[s].embed = "AlreadySubmitted"
          /\ (inter'[s].pc = "done" /\ inter'[s].cmd = "check"
                  /\ inter'[s].replies # <<>>
                  /\ inter'[s].replies[Len(inter'[s].replies)].msg = "AlreadySubmitted")
             => "Server.save" \notin inter'[s].did]_vars

C10_AlreadySubmittedReplied ==
    \E s \in Slots : Ended(s, "check") /\ LastReply(s) = "AlreadySubmitted"


\* C11: a check that gets past the short-circuit and whose save succeeds
\* changes the guild's member list as follows.  If the document it read had
\* no entry of the caller, one entry is appended, with points 1 and
\* lastSubmitted the daily problem when solved, points 0 and lastSubmitted
\* null when not.  Otherwise the caller's entry gets the points read plus 1
\* and lastSubmitted the daily problem, solved or not.  Every other entry and
\* every other record stay as they are; solved is what the judge's
\* submissions say at the time of the fetch.
C11_UpdateRule ==
    [][\A s \in Slots :
           /\ (Steps(s) /\ inter[s].pc = "check:judge" /\ inter'[s].pc # "done") =>
                  inter'[s].solved = HasSolved(subs[inter[s].udoc.cfUsername],
                                               inter[s].doc.daily)
           /\ (Steps(s) /\ inter[s].pc = "check:save" /\ inter'[s].pc = "check:reply") =>
                  LET rec == inter[s]
                      oid == rec.doc.oid
                      k == FindMember(rec.doc.members, rec.udoc)
                      old == servers[oid].members
                      new == servers'[oid].members
                  IN  /\ \A o \in DOMAIN servers : o # oid => servers'[o] = servers[o]
                      /\ DOMAIN servers' = DOMAIN servers
                      /\ IF k = 0
                         THEN new = Append(old,
                                  [user |-> rec.udoc.oid,
                                   points |-> IF rec.solved THEN 1 ELSE 0,
                                   lastSubmitted |-> IF rec.solved THEN rec.doc.daily
                                                     ELSE Null])
                         ELSE /\ Len(new) = Len(old)
                              /\ new[k].points = rec.doc.members[k].points + 1
                              /\ new[k].lastSubmitted = rec.doc.daily
                              /\ new[k].user = old[k].user
                              /\ \A j \in DOMAIN old : j # k => new[j] = old[j]]_vars

\* C11 (witness): a check of a present member who has not solved the daily
\* problem has saved: the entry has a point and the daily problem as
\* lastSubmitted, and the caller was told the problem is not solved.
C11_IncrementedUnsolved ==
    \E s \in Slots :
        /\ Ended(s, "check")
        /\ LastReply(s) = "NotSolved"
        /\ inter[s].delta.kind = "set"
        /\ \E k \in DOMAIN servers[1].members :
               /\ users[servers[1].members[k].user].id = inter[s].user
               /\ servers[1].members[k].points >= 1
               /\ servers[1].members[k].lastSubmitted = servers[1].daily


\* C12 (as claimed): no press of a control is verified once a press of that
\* control has been turned down (wrong problem, wrong verdict, nothing
\* fetched).
C12_RejectedIsTerminal ==
    [][\A s \in Slots :
           (Steps(s) /\ inter[s].pc = "button:judge" /\ inter'[s].pc = "button:save") =>
               \A c \in controls : c.id = inter[s].control => ~c.rejected]_vars


\* C13: a check whose caller has no UserRecord ends with the not-logged-in
\* reply; a check in a guild that has no record with a daily problem ends
\* with the no-daily-problem reply; a check whose submissions fetch fails
\* ends with the fetch-error reply; and a check handler that ends with one of
\* these replies has changed no guild or user record in any of its steps,
\* has called no save and has started no leaderboard refresh.
C13_FailurePaths ==
    [][\A s \in Slots :
           (Steps(s) /\ inter[s].cmd = "check") =>
               LET last == inter'[s].replies[Len(inter'[s].replies)].msg
                   ends == inter'[s].pc = "done"
               IN  /\ (inter[s].pc = "check"
                       /\ ~\E k \in DOMAIN users : users[k].id = inter[s].user)
                          => ends /\ last = "NotLoggedIn"
                   /\ (inter[s].pc = "check:server"
                       /\ ~\E k \in DOMAIN servers :
                              servers[k].guildId = inter[s].guild /\ servers[k].daily # Null)
                          => ends /\ last = "NoDailyProblem"
                   /\ "judge.failed" \in inter'[s].did => ends /\ last = "CheckFailed"
                   /\ inter[s].pc \in {"check", "check:server", "check:judge"}
                          => servers' = servers /\ users' = users /\ posts' = posts
                   /\ (ends /\ last \in {"NotLoggedIn", "NoDailyProblem", "CheckFailed"})
                          => /\ inter[s].pc \in {"check", "check:server", "check:judge"}
                             /\ "Server.save" \notin inter'[s].did
                             /\ task'[s] = NoTask]_vars

\* C13 (witness): in a guild whose record has a daily problem and members,
\* the check of a user who has not logged in has ended with the
\* not-logged-in reply and no refresh is under way.
C13_NotLoggedInRejected ==
    \E s \in Slots :
        /\ Ended(s, "check")
        /\ LastReply(s) = "NotLoggedIn"
        /\ inter[s].user = "u2"
        /\ task[s] = NoTask
        /\ servers # <<>>
        /\ servers[1].members # <<>>


C15_DetachedRefresh ==
    /\ \A s \in Slots :
           (inter[s].pc = "check:judge") ~> (inter[s].pc = "done" /\ inter[s].replies # <<>>)
    /\ [][\A s \in Slots :
              (task[s].pc \notin {"none", "done"} /\ task'[s] # task[s]) =>
                  /\ inter' = inter
                  /\ users' = users
                  /\ (\/ task[s].pc \in {"lb:find", "lb:channel"} /\ task'[s].pc = "done"
                      \/ task[s].pc \in {"lb:send", "lb:edit"} /\ posts' = posts
                      \/ task[s].pc = "lb:save"
                             /\ servers[task[s].doc.oid].v # task[s].doc.v)
                         => servers' = servers]_vars

\* C15 (witness): the refresh a check started has failed (the guild has a
\* leaderboard channel and nothing was posted) and is over while the check's
\* reply is still on its way, the member update being in the store.
C15_RefreshFailedBeforeReply ==
    \E s \in Slots :
        /\ inter[s].pc = "check:reply"
        /\ inter[s].delta.kind = "push"
        /\ task[s].pc = "done"
        /\ posts = <<>>
        /\ servers[1].channelId # Null
        /\ servers[1].members # <<>>

\* C16: for every non-negative whole number of seconds n, formatUptime(n) is
\* "{d}d, {h}h, {m}m, {s}s" where d is n div 86400, h is below 24, m and s
\* are below 60 and d*86400 + h*3600 + m*60 + s = n; 90061 seconds give
\* "1d, 1h, 1m, 1s".
C16_UptimeFormat ==
    uptimeOut.done =>
        LET n == uptimeIn
            d == n \div 86400
            h == (n \div 3600) % 24
            m == (n \div 60) % 60
            s == n % 60
        IN  /\ h < 24 /\ m < 60 /\ s < 60
            /\ d * 86400 + h * 3600 + m * 60 + s = n
            /\ uptimeOut.text = UptimeText(d, h, m, s)
            /\ n = 90061 =>
                   uptimeOut.text = <<"1", "d", ",", " ", "1", "h", ",", " ",
                                      "1", "m", ",", " ", "1", "s">>

\* C16 witness: 90061 seconds have been formatted, as one day, one hour, one
\* minute and one second.
C16_OneOfEach ==
    /\ uptimeOut.done
    /\ uptimeIn = 90061
    /\ uptimeOut.text = <<"1", "d", ",", " ", "1", "h", ",", " ",
                          "1", "m", ",", " ", "1", "s">>

\* The daily problem the setdailyproblem handler in slot s has written is in
\* the store: in the record it created or in the record it read.
DailyPersisted(s) ==
    LET rec == inter[s]
        wrote == ProblemIdOf(rec.match.contestId, rec.match.index)
    IN  IF rec.doc = NoDoc
        THEN /\ Len(servers') = Len(servers) + 1
             /\ servers'[Len(servers')].guildId = rec.guild
             /\ servers'[Len(servers')].daily = wrote
        ELSE /\ Len(servers') = Len(servers)
             /\ servers'[rec.doc.oid].guildId = rec.guild
             /\ servers'[rec.doc.oid].daily = wrote

\* C17: an authorized setdailyproblem with a valid, existing problem stores
\* "<contestId>/<index>" as the guild's daily problem, creating the record when
\* there is none, before the announcement is attempted; no step of the
\* announcement changes the store, whether the announcement fails (no channel
\* set, channel not found, send error) or not, and a failure only adds a
\* warning to the reply that the daily problem has been set.
C17_BestEffortAnnouncement ==
    [][\A s \in Slots :
          (Steps(s) /\ inter[s].cmd = "setdailyproblem") =>
              /\ (inter[s].pc = "daily:validate" /\ inter'[s].pc = "daily:find") =>
                     /\ HasPermission(inter[s])
                     /\ \E p \in Problems :
                            inter[s].match.contestId = NumberToString(p.contestId)
                            /\ inter[s].match.index = p.index
              /\ inter[s].pc = "daily:find" => inter'[s].pc = "daily:write"
              /\ inter[s].pc = "daily:write" =>
                     /\ DailyPersisted(s)
                     /\ inter'[s].pc = "announce:find"
                     /\ "AnnouncementFailed" \notin inter'[s].warnings
                     /\ "channel.send" \notin inter'[s].did
              /\ inter[s].pc \in {"announce:find", "announce:channel", "announce:send"} =>
                     /\ servers' = servers
                     /\ inter'[s].pc \in {"announce:channel", "announce:send", "daily:reply"}
                     /\ inter'[s].pc = "daily:reply" =>
                            ("AnnouncementFailed" \in inter'[s].warnings
                                 <=> "channel.send" \notin inter'[s].did)
              /\ inter[s].pc = "daily:reply" =>
                     /\ servers' = servers
                     /\ inter'[s].pc = "done"
                     /\ inter'[s].replies = <<[how |-> "reply", msg |-> "DailySet"]>>
                     /\ inter'[s].warnings = inter[s].warnings]_vars

\* C17 witness: a setdailyproblem whose announcement failed on the send has
\* ended with the reply that the daily problem is set, carrying the warning,
\* and the problem is the guild's daily problem.
C17_SendFailedDailyKept ==
    \E s \in Slots :
        /\ Ended(s, "setdailyproblem")
        /\ LastReply(s) = "DailySet"
        /\ "AnnouncementFailed" \in inter[s].warnings
        /\ "channel.send.failed" \in inter[s].did
        /\ \E k \in DOMAIN servers :
               /\ servers[k].guildId = inter[s].guild
               /\ servers[k].daily =
                      ProblemIdOf(inter[s].match.contestId, inter[s].match.index)

\* C18 (as claimed): members whose user reference does not resolve produce no
\* line, and the rank of each rendered member is 1 + the number of rendered
\* members before it with strictly more points, rendered members of equal
\* points sharing a rank.
C18_RankAmongRendered ==
    rankOut.done =>
        LET L == rankOut.lines
            resolved == {j \in DOMAIN rankIn : rankIn[j].user # NoDoc}
        IN  /\ Len(L) = Cardinality(resolved)
            /\ \A k \in 1..Len(L) :
                   L[k].rank = 1 + Cardinality({j \in 1..(k - 1) : L[j].points > L[k].points})
            /\ \A j, k \in 1..Len(L) : L[j].points = L[k].points => L[j].rank = L[k].rank

\* C19 (as claimed): check goes on past its login test only with a UserRecord
\* of the caller created in the guild where check is invoked, and every entry
\* of a guild's member list refers to a UserRecord with that guild's guildId.
C19_MembersOfOwnGuild ==
    /\ \A s \in Slots :
           (inter[s].cmd = "check" /\ inter[s].udoc # NoDoc) =>
               /\ inter[s].udoc.id = inter[s].user
               /\ inter[s].udoc.guildId = inter[s].guild
    /\ \A k \in DOMAIN servers :
           \A j \in DOMAIN servers[k].members :
               LET ref == servers[k].members[j].user
               IN  ref \in DOMAIN users /\ users[ref].guildId = servers[k].guildId

\* C20: every successful confirmation (a Done press whose submission was
\* verified, at its save) appends exactly one UserRecord with the presser's
\* user ID, the handle read from the control and the interaction's guild, also
\* when a UserRecord of that user exists already; the UserRecords there were
\* stay as they were, and no other step changes the collection.
C20_NoDeduplication ==
    [][/\ \A s \in Slots :
              (Steps(s) /\ inter[s].pc = "button:save") =>
                  /\ Len(users') = Len(users) + 1
                  /\ users'[Len(users')] =
                         [id |-> inter[s].user,
                          cfUsername |-> At(Split(inter[s].arg, "|"), 1),
                          guildId |-> inter[s].guild]
                  /\ LastReply(s)' = "SignedIn"
       /\ Len(users') >= Len(users)
       /\ SubSeq(users', 1, Len(users)) = users
       /\ users' # users => \E s \in Slots : Steps(s) /\ inter[s].pc = "button:save"]_vars

\* C20 witness: a confirmation has succeeded for a user who had a UserRecord
\* in that guild already, and the store holds both.
C20_SecondRecord ==
    \E s \in Slots :
        /\ Ended(s, "button")
        /\ LastReply(s) = "SignedIn"
        /\ \E j, k \in DOMAIN users :
               /\ j < k
               /\ users[j].id = inter[s].user /\ users[k].id = inter[s].user
               /\ users[j].guildId = inter[s].guild /\ users[k].guildId = inter[s].guild

\* The field a channel command sets.
ChannelPath(cmd) ==
    IF cmd = "setleaderboardchannel" THEN "channelId" ELSE "announcementChannelId"

\* C21 (as claimed): the write of an authorized setleaderboardchannel (resp.
\* setannouncementchannel) with a valid channel creates the guild's record
\* when the guild has none and otherwise sets only channelId (resp.
\* announcementChannelId) of the guild's record to the channel's ID: daily,
\* members, messageId and the other channel ID stay, and no other record is
\* touched.
C21_ChannelUpsert ==
    [][\A s \in Slots :
          (Steps(s) /\ inter[s].pc \in {"lbchan:write", "annchan:write"}) =>
              LET rec == inter[s]
                  path == ChannelPath(rec.cmd)
                  mine == {k \in DOMAIN servers : servers[k].guildId = rec.guild}
              IN  IF mine = {}
                  THEN servers' = Append(servers,
                                         [NewServer(rec.guild) EXCEPT ![path] = rec.chan.id])
                  ELSE /\ Len(servers') = Len(servers)
                       /\ \A k \in DOMAIN servers :
                              IF k \in mine
                              THEN servers'[k] = [servers[k] EXCEPT ![path] = rec.chan.id]
                              ELSE servers'[k] = servers[k]]_vars

\* The step of the refresh started from slot s, if this step is one.
RefreshSteps(s) == task[s].pc \notin {"none", "done"} /\ task'[s] # task[s]

\* C22 (as claimed): an updateLeaderboard for a guild with members and a
\* channel that resolves edits the stored message, sends none and leaves
\* messageId as it is when the stored ID is that of a message in the channel;
\* with no ID stored, or one whose message cannot be fetched, it sends exactly
\* one new message and stores that message's ID.
C22_SendOrEdit ==
    [][\A s \in Slots :
          RefreshSteps(s) =>
              LET t == task[s]
                  there == t.doc.messageId # Null
                           /\ MessageIn(t.doc.channelId, t.doc.messageId) # 0
              IN  /\ (t.pc = "lb:channel" /\ task'[s].pc # "done") =>
                         task'[s].pc = IF t.doc.messageId = Null THEN "lb:send" ELSE "lb:fetch"
                  /\ t.pc = "lb:fetch" =>
                         task'[s].pc = IF there THEN "lb:edit" ELSE "lb:send"
                  /\ t.pc = "lb:edit" =>
                         /\ there
                         /\ Len(posts') = Len(posts)
                         /\ servers' = servers
                         /\ task'[s].pc = "done"
                  /\ t.pc = "lb:send" =>
                         /\ ~there
                         /\ servers' = servers
                         /\ \/ posts' = posts /\ task'[s].pc = "done"
                            \/ /\ Len(posts') = Len(posts) + 1
                               /\ posts'[Len(posts')].channel = t.doc.channelId
                               /\ task'[s].pc = "lb:save"
                               /\ task'[s].doc.messageId = NumberToString(Len(posts'))
                  /\ t.pc = "lb:save" =>
                         /\ posts' = posts
                         /\ servers'[t.doc.oid].messageId = t.doc.messageId]_vars

\* C23 (as claimed): in every step, checks and refreshes of one guild
\* overlapping included, every stored member entry stays in its guild's member
\* list (whatever its position) with points at least what they were.
C23_PointsNeverDecrease ==
    [][\A d \in DOMAIN servers :
          LET old == servers[d].members
              new == servers'[d].members
          IN  \E f \in [DOMAIN old -> DOMAIN new] :
                  /\ \A i, j \in DOMAIN old : f[i] = f[j] => i = j
                  /\ \A j \in DOMAIN old :
                         /\ new[f[j]].user = old[j].user
                         /\ new[f[j]].points >= old[j].points]_vars

\* C24 (as claimed): a refresh writes nothing but messageId: no step of an
\* updateLeaderboard changes any field of a guild record other than messageId
\* (and the version key), so the members' stored points and lastSubmitted
\* stay what the checks wrote.
C24_RefreshWritesMessageIdOnly ==
    [][\A s \in Slots :
          RefreshSteps(s) =>
              /\ Len(servers') = Len(servers)
              /\ \A d \in DOMAIN servers :
                     [servers'[d] EXCEPT !.messageId = Null, !.v = 0]
                         = [servers[d] EXCEPT !.messageId = Null, !.v = 0]]_vars

\* C25 (as claimed): with the guild's leaderboard channel fixed and no message
\* ever deleted, the checks and their detached refreshes, in any order and
\* overlapping, send at most one leaderboard message to the channel.
C25_OneLeaderboardMessage ==
    Cardinality({k \in DOMAIN posts :
                    posts[k].kind = "leaderboard" /\ posts[k].channel = ChannelC1}) <= 1

\* C26 (as claimed): every control login has created decodes, by the button
\* handler's split, to the handle given to login and to the problem ID the bot
\* picked, and a button handler that has decoded its control compares the
\* submission with the contestId and index of that problem.
C26_ControlRoundTrip ==
    /\ \A c \in controls :
           /\ ButtonHandle(c.customId) = c.handle
           /\ ButtonProblemId(c.customId) = c.problemId
    /\ \A s \in Slots :
           (inter[s].cmd = "button" /\ inter[s].pc \in {"button:judge", "button:save"}) =>
               \A c \in controls :
                   c.id = inter[s].control =>
                       ProblemIdOf(inter[s].match.contestId, inter[s].match.index)
                           = c.problemId

\* C27 (as claimed): a check judges the submissions of the handle of the
\* caller's latest successful confirmation: the UserRecord a check handler
\* works with has the handle of the newest UserRecord of the caller, also
\* when the caller has an older UserRecord with another handle.
C27_CheckUsesLatestHandle ==
    \A s \in Slots :
        (inter[s].cmd = "check" /\ inter[s].udoc # NoDoc) =>
            LET mine == {k \in DOMAIN users : users[k].id = inter[s].user}
                latest == CHOOSE k \in mine : \A j \in mine : j <= k
            IN  inter[s].udoc.cfUsername = users[latest].cfUsername

=============================================================================
